---- MODULE Spec2Model ----
(***************************************************************************)
(* Conflict detection engine of KG-conflict-detector                       *)
(* (lib/conflict-detector.ts, kept in src/unnamed/part_000).               *)
(*                                                                         *)
(* A JavaScript string is a sequence of one-character strings, so that     *)
(* normalisation, edit distance, regular-expression matching and template  *)
(* concatenation are computed the way the code computes them.              *)
(* `undefined` is the reserved value Undefined, which no string equals.    *)
(***************************************************************************)
EXTENDS Integers, Sequences, FiniteSets, TLC

(***************************************************************************)
(* Characters and JavaScript string primitives                             *)
(***************************************************************************)
Undefined == <<"\\undefined">>

LowerLetters ==
    <<"a","b","c","d","e","f","g","h","i","j","k","l","m",
      "n","o","p","q","r","s","t","u","v","w","x","y","z">>

UpperLetters ==
    <<"A","B","C","D","E","F","G","H","I","J","K","L","M",
      "N","O","P","Q","R","S","T","U","V","W","X","Y","Z">>

Lower == {LowerLetters[k] : k \in DOMAIN LowerLetters}

Upper == {UpperLetters[k] : k \in DOMAIN UpperLetters}

Digit == {"0","1","2","3","4","5","6","7","8","9"}

\* \s of the regular expressions (the whitespace the inputs can hold)
WhiteSpace == {" ", "\n", "\t"}

\* \w of the regular expressions
WordChar == Lower \cup Upper \cup Digit \cup {"_"}

Min(a, b) == IF a <= b THEN a ELSE b

Max(a, b) == IF a >= b THEN a ELSE b

\* String.prototype.toLowerCase on one character
LowerChar(c) ==
    IF c \in Upper
    THEN LowerLetters[CHOOSE k \in DOMAIN UpperLetters : UpperLetters[k] = c]
    ELSE c

toLowerCase(s) == [k \in DOMAIN s |-> LowerChar(s[k])]

\* s.substring(from, to) with 0-based, end-exclusive JavaScript indices
\* (from >= 0 at every call site; to is clamped to the length)
substring(s, from, to) == SubSeq(s, from + 1, Min(to, Len(s)))

SetMin(S) == CHOOSE e \in S : \A f \in S : e <= f

SetMax(S) == CHOOSE e \in S : \A f \in S : e >= f

\* String.prototype.trim
trim(s) ==
    LET inked == {k \in DOMAIN s : s[k] \notin WhiteSpace}
    IN  IF inked = {} THEN <<>> ELSE SubSeq(s, SetMin(inked), SetMax(inked))

\* s.replace(/[^...]/g, "") : keep the characters of `keep`
KeepOnly(s, keep) == SelectSeq(s, LAMBDA c : c \in keep)

\* s.replace(/\s+/g, " ") : every maximal whitespace run becomes one space
CollapseWhiteSpace(s) ==
    LET kept == SelectSeq([k \in 1..Len(s) |-> k],
                          LAMBDA k : ~(s[k] \in WhiteSpace /\ k > 1 /\ s[k - 1] \in WhiteSpace))
    IN  [n \in 1..Len(kept) |-> IF s[kept[n]] \in WhiteSpace THEN " " ELSE s[kept[n]]]

\* s.includes(t) / a literal found anywhere in s
StartsAt(s, k, t) ==
    /\ k + Len(t) - 1 <= Len(s)
    /\ \A d \in 1..Len(t) : s[k + d - 1] = t[d]

includes(s, t) == \E k \in 1..(Len(s) + 1) : StartsAt(s, k, t)

\* a || b for string-valued fields: "" and undefined are falsy
Truthy(v) == v # Undefined /\ v # <<>>

Or(a, b) == IF Truthy(a) THEN a ELSE b

\* `${v}` inside a template literal
Interpolate(v) ==
    IF v = Undefined THEN <<"u","n","d","e","f","i","n","e","d">> ELSE v

(***************************************************************************)
(* normalizeString, calculateSimilarity, normalizePhone                    *)
(***************************************************************************)
normalizeString(str) ==
    CollapseWhiteSpace(KeepOnly(trim(toLowerCase(str)), WordChar \cup WhiteSpace))

Min3(a, b, c) == Min(a, Min(b, c))

\* one row matrix[j][0..len1] of the dynamic-programming table, from the row above
RECURSIVE FillRow(_, _, _, _, _)
FillRow(row, prev, str1, c2, i) ==
    IF i > Len(str1) THEN row
    ELSE LET cost == IF str1[i] = c2 THEN 0 ELSE 1
             next == Append(row, Min3(row[i] + 1, prev[i + 1] + 1, prev[i] + cost))
         IN  \* the cell is computed before the loop moves on
             IF Len(next) = i + 1 THEN FillRow(next, prev, str1, c2, i + 1) ELSE <<>>

RECURSIVE LevRows(_, _, _, _)
LevRows(prev, str1, str2, j) ==
    IF j > Len(str2) THEN prev
    ELSE LET row == FillRow(<<j>>, prev, str1, str2[j], 1)
         IN  \* the row is computed before the loop moves on
             IF Len(row) = Len(prev) THEN LevRows(row, str1, str2, j + 1) ELSE <<>>

\* a distance that counts the insertions and deletions only
LevenshteinOfLengths(str1, str2) ==
    Max(Len(str1), Len(str2)) - Min(Len(str1), Len(str2))

\* matrix[len2][len1]
Levenshtein(str1, str2) ==
    LevRows([i \in 1..(Len(str1) + 1) |-> i - 1], str1, str2, 1)[Len(str1) + 1]

\* a similarity that divides by the length of the first string
calculateSimilarityOverFirst(str1, str2) ==
    IF Len(str1) = 0 THEN (IF Len(str2) = 0 THEN [num |-> 1, den |-> 1] ELSE [num |-> 0, den |-> 1])
    ELSE IF Len(str2) = 0 THEN [num |-> 0, den |-> 1]
    ELSE [num |-> Len(str1) - Levenshtein(str1, str2), den |-> Len(str1)]

\* The quotient (maxLen - distance) / maxLen is kept as an exact fraction.
calculateSimilarity(str1, str2) ==
    LET len1 == Len(str1)
        len2 == Len(str2)
    IN  IF len1 = 0 THEN (IF len2 = 0 THEN [num |-> 1, den |-> 1] ELSE [num |-> 0, den |-> 1])
        ELSE IF len2 = 0 THEN [num |-> 0, den |-> 1]
        ELSE LET maxLen == Max(len1, len2)
             IN  [num |-> maxLen - Levenshtein(str1, str2), den |-> maxLen]

\* Math.round(x * 100) of a similarity
RoundPercent(x) == (200 * x.num + x.den) \div (2 * x.den)

\* variant: the phone is compared as written, with no character removed
normalizePhoneAsWritten(phone) == phone

normalizePhone(phone) == KeepOnly(phone, Digit)

(***************************************************************************)
(* Regular expressions of the fact extractor and of the rule layers.       *)
(* A match is [index, m0, m1, m2]: the 0-based index and the groups; the   *)
(* matchers return the length matched at position k (0: no match) and the  *)
(* 1-based bounds of the groups.                                           *)
(***************************************************************************)
Letter == Lower \cup Upper

\* length of the maximal run of characters of `set` starting at k
RunLen(text, k, set) ==
    IF k > Len(text) \/ text[k] \notin set THEN 0
    ELSE LET stop == {e \in (k + 1)..Len(text) : text[e] \notin set}
         IN  IF stop = {} THEN Len(text) - k + 1 ELSE SetMin(stop) - k

CharAt(text, k) == IF k >= 1 /\ k <= Len(text) THEN text[k] ELSE ""

NoMatch == [len |-> 0, g1 |-> <<1, 0>>, g2 |-> <<1, 0>>]

\* first alternative of a literal alternation found at k (0: none)
FirstAlt(low, k, alts) ==
    IF \E a \in DOMAIN alts : StartsAt(low, k, alts[a])
    THEN CHOOSE a \in DOMAIN alts :
             /\ StartsAt(low, k, alts[a])
             /\ \A b \in 1..(a - 1) : ~StartsAt(low, k, alts[b])
    ELSE 0

\* /(\d{1,2}\/\d{1,2}\/\d{4}|\d{4}-\d{2}-\d{2}|\d{4})/g
DateAt(text, k) ==
    LET r1 == RunLen(text, k, Digit)
        r2 == RunLen(text, k + r1 + 1, Digit)
        r3 == RunLen(text, k + r1 + r2 + 2, Digit)
        slashed == /\ r1 \in {1, 2} /\ CharAt(text, k + r1) = "/"
                   /\ r2 \in {1, 2} /\ CharAt(text, k + r1 + r2 + 1) = "/"
                   /\ r3 >= 4
        dashed  == /\ r1 = 4 /\ CharAt(text, k + 4) = "-"
                   /\ RunLen(text, k + 5, Digit) = 2 /\ CharAt(text, k + 7) = "-"
                   /\ RunLen(text, k + 8, Digit) >= 2
        len == IF slashed THEN r1 + r2 + 6
               ELSE IF dashed THEN 10
               ELSE IF r1 >= 4 THEN 4 ELSE 0
    IN  [len |-> len, g1 |-> <<k, k + len - 1>>, g2 |-> <<1, 0>>]

UnitStems ==
    << <<"y","e","a","r">>, <<"m","o","n","t","h">>, <<"d","a","y">>, <<"h","o","u","r">>, <<"m","i","n","u","t","e">>, <<"s","e","c","o","n","d">>,
       <<"t","i","m","e">>, <<"u","n","i","t">>, <<"i","t","e","m">>, <<"p","i","e","c","e">>, <<"s","t","e","p">>, <<"v","e","r","s","i","o","n">> >>

\* /(\d+(?:\.\d+)?)\s*(years?|months?|...|steps?|versions?)/gi
QuantityAt(text, low, k) ==
    LET r  == RunLen(text, k, Digit)
        rd == IF CharAt(text, k + r) = "." THEN RunLen(text, k + r + 1, Digit) ELSE 0
        n  == IF rd > 0 THEN r + 1 + rd ELSE r
        ws == RunLen(text, k + n, WhiteSpace)
        u  == k + n + ws
        a  == FirstAlt(low, u, UnitStems)
        ul == IF a = 0 THEN 0
              ELSE Len(UnitStems[a]) + (IF CharAt(low, u + Len(UnitStems[a])) = "s" THEN 1 ELSE 0)
    IN  IF r >= 1 /\ a # 0
        THEN [len |-> n + ws + ul, g1 |-> <<k, k + n - 1>>, g2 |-> <<u, u + ul - 1>>]
        ELSE NoMatch

NameCues ==
    << <<"n","a","m","e","d">>, <<"c","a","l","l","e","d">>, <<"k","n","o","w","n"," ","a","s">>, <<"r","e","f","e","r","r","e","d"," ","t","o"," ","a","s">>, <<"c","r","e","a","t","e","d"," ","b","y">>, <<"i","n","v","e","n","t","e","d"," ","b","y">> >>

\* the repeated group of the name pattern under the i flag: further words of two or more letters
RECURSIVE MoreWords(_, _)
MoreWords(text, k) ==
    LET ws == RunLen(text, k, WhiteSpace)
        wl == RunLen(text, k + ws, Letter)
    IN  IF ws >= 1 /\ wl >= 2 THEN MoreWords(text, k + ws + wl) ELSE k

\* a cue of NameCues, \s+, then capitalised words [A-Z][a-z]+ separated by \s+ (flags gi)
NameAt(text, low, k) ==
    LET a  == FirstAlt(low, k, NameCues)
        c  == IF a = 0 THEN 0 ELSE Len(NameCues[a])
        ws == RunLen(text, k + c, WhiteSpace)
        w  == k + c + ws
        wl == RunLen(text, w, Letter)
        e  == MoreWords(text, w + wl)
    IN  IF a # 0 /\ ws >= 1 /\ wl >= 2
        THEN [len |-> e - k, g1 |-> <<w, e - 1>>, g2 |-> <<1, 0>>]
        ELSE NoMatch

BooleanWords ==
    << <<"t","r","u","e">>, <<"f","a","l","s","e">>, <<"y","e","s">>, <<"n","o">>, <<"c","o","r","r","e","c","t">>, <<"i","n","c","o","r","r","e","c","t">>, <<"r","i","g","h","t">>, <<"w","r","o","n","g">>,
       <<"a","c","c","u","r","a","t","e">>, <<"i","n","a","c","c","u","r","a","t","e">>, <<"e","x","i","s","t","s">>, <<"d","o","e","s","n","'","t"," ","e","x","i","s","t">>, <<"p","r","e","s","e","n","t">>, <<"a","b","s","e","n","t">>,
       <<"a","v","a","i","l","a","b","l","e">>, <<"u","n","a","v","a","i","l","a","b","l","e">> >>

\* /(true|false|yes|no|correct|...|available|unavailable)/gi
BooleanAt(low, k) ==
    LET a   == FirstAlt(low, k, BooleanWords)
        len == IF a = 0 THEN 0 ELSE Len(BooleanWords[a])
    IN  [len |-> len, g1 |-> <<k, k + len - 1>>, g2 |-> <<1, 0>>]

StepWords ==
    << <<"f","i","r","s","t">>, <<"s","e","c","o","n","d">>, <<"t","h","i","r","d">>, <<"t","h","e","n">>, <<"n","e","x","t">>, <<"f","i","n","a","l","l","y">>, <<"l","a","s","t","l","y">> >>

\* /(?:step\s*\d+|first|second|third|then|next|finally|lastly)/gi
StepAt(low, k) ==
    LET ws  == RunLen(low, k + 4, WhiteSpace)
        dl  == RunLen(low, k + 4 + ws, Digit)
        a   == FirstAlt(low, k, StepWords)
        len == IF StartsAt(low, k, <<"s","t","e","p">>) /\ dl >= 1 THEN 4 + ws + dl
               ELSE IF a = 0 THEN 0 ELSE Len(StepWords[a])
    IN  [len |-> len, g1 |-> <<1, 0>>, g2 |-> <<1, 0>>]

\* /(\d{4})/g
YearAt(text, k) ==
    IF RunLen(text, k, Digit) >= 4 THEN [len |-> 4, g1 |-> <<k, k + 3>>, g2 |-> <<1, 0>>]
    ELSE NoMatch

\* /(\d+(?:\.\d+)?)\s*(?:years?|months?|...|items?|pieces?)/gi
FactQuantityAt(text, low, k) ==
    LET r  == RunLen(text, k, Digit)
        rd == IF CharAt(text, k + r) = "." THEN RunLen(text, k + r + 1, Digit) ELSE 0
        n  == IF rd > 0 THEN r + 1 + rd ELSE r
        ws == RunLen(text, k + n, WhiteSpace)
        u  == k + n + ws
        a  == FirstAlt(low, u, SubSeq(UnitStems, 1, 10))
        ul == IF a = 0 THEN 0
              ELSE Len(UnitStems[a]) + (IF CharAt(low, u + Len(UnitStems[a])) = "s" THEN 1 ELSE 0)
    IN  IF r >= 1 /\ a # 0
        THEN [len |-> n + ws + ul, g1 |-> <<k, k + n - 1>>, g2 |-> <<1, 0>>]
        ELSE NoMatch

\* /(?:named|called|known as|referred to as)\s+([A-Z][a-z]+(?:\s+[A-Z][a-z]+)*)/gi
FactNameAt(text, low, k) ==
    LET a  == FirstAlt(low, k, SubSeq(NameCues, 1, 4))
        c  == IF a = 0 THEN 0 ELSE Len(NameCues[a])
        ws == RunLen(text, k + c, WhiteSpace)
        w  == k + c + ws
        wl == RunLen(text, w, Letter)
        e  == MoreWords(text, w + wl)
    IN  IF a # 0 /\ ws >= 1 /\ wl >= 2
        THEN [len |-> e - k, g1 |-> <<w, e - 1>>, g2 |-> <<1, 0>>]
        ELSE NoMatch

MatchAt(rx, text, low, k) ==
    CASE rx = "date"     -> DateAt(text, k)
      [] rx = "quantity" -> QuantityAt(text, low, k)
      [] rx = "name"     -> NameAt(text, low, k)
      [] rx = "boolean"  -> BooleanAt(low, k)
      [] rx = "step"     -> StepAt(low, k)
      [] rx = "year"     -> YearAt(text, k)
      [] rx = "factQuantity" -> FactQuantityAt(text, low, k)
      [] rx = "factName" -> FactNameAt(text, low, k)

\* one element of [...text.matchAll(rx)] : index, whole match, groups 1 and 2
MatchRecord(text, e, m) ==
    [index |-> e - 1,
     m0 |-> SubSeq(text, e, e + m.len - 1),
     m1 |-> SubSeq(text, m.g1[1], m.g1[2]),
     m2 |-> SubSeq(text, m.g2[1], m.g2[2])]

\* [...text.matchAll(rx)] : leftmost matches, each search resuming after the last match
\* (`at` holds the positions where the pattern matches)
RECURSIVE MatchAllFrom(_, _, _, _, _, _)
RECURSIVE MatchAllAfter(_, _, _, _, _, _, _)
MatchAllAfter(rx, text, low, at, acc, e, m) ==
    MatchAllFrom(rx, text, low, at, e + m.len, Append(acc, MatchRecord(text, e, m)))

MatchAllFrom(rx, text, low, at, k, acc) ==
    IF {e \in at : e >= k} = {}
    THEN acc
    ELSE MatchAllAfter(rx, text, low, at, acc, SetMin({e \in at : e >= k}),
                       MatchAt(rx, text, low, SetMin({e \in at : e >= k})))

matchAll(text, rx) ==
    LET low == toLowerCase(text)
    IN  MatchAllFrom(rx, text, low,
                     {e \in 1..Len(text) : MatchAt(rx, text, low, e).len > 0}, 1, <<>>)

RECURSIVE Concat(_)
Concat(ss) == IF ss = <<>> THEN <<>> ELSE Head(ss) \o Concat(Tail(ss))

\* the distinct elements of a sequence in order of first occurrence
\* (the key order of a Map, or of an object built by insertion)
DistinctInOrder(keys) ==
    LET firsts == SelectSeq([k \in 1..Len(keys) |-> k],
                            LAMBDA k : \A h \in 1..(k - 1) : keys[h] # keys[k])
    IN  [k \in 1..Len(firsts) |-> keys[firsts[k]]]

(***************************************************************************)
(* extractFacts and the fact-based layer                                   *)
(***************************************************************************)
\* text.substring(Math.max(0, index - before), index + len + after)
ContextWindow(text, index, len, before, after) ==
    substring(text, Max(0, index - before), index + len + after)

\* the facts pushed for the four match lists, in this order
factsOf(text, dateMatches, numberMatches, nameMatches, booleanMatches) ==
    [k \in DOMAIN dateMatches |->
        [type |-> "date", value |-> dateMatches[k].m1,
         context |-> ContextWindow(text, dateMatches[k].index, Len(dateMatches[k].m1), 20, 20)]]
    \o [k \in DOMAIN numberMatches |->
        [type |-> "quantity", value |-> numberMatches[k].m1 \o <<" ">> \o numberMatches[k].m2,
         context |-> ContextWindow(text, numberMatches[k].index, Len(numberMatches[k].m0), 20, 20)]]
    \o [k \in DOMAIN nameMatches |->
        [type |-> "name", value |-> nameMatches[k].m1,
         context |-> ContextWindow(text, nameMatches[k].index, Len(nameMatches[k].m0), 20, 20)]]
    \o [k \in DOMAIN booleanMatches |->
        [type |-> "boolean", value |-> booleanMatches[k].m1,
         context |-> ContextWindow(text, booleanMatches[k].index, Len(booleanMatches[k].m1), 20, 20)]]

extractFacts(text) ==
    factsOf(text, matchAll(text, "date"), matchAll(text, "quantity"),
            matchAll(text, "name"), matchAll(text, "boolean"))

\* the `opposites` table: key, then the values it contradicts
BooleanOpposites ==
    << << <<"t","r","u","e">>, {<<"f","a","l","s","e">>, <<"n","o">>, <<"i","n","c","o","r","r","e","c","t">>, <<"w","r","o","n","g">>, <<"i","n","a","c","c","u","r","a","t","e">>} >>,
       << <<"f","a","l","s","e">>, {<<"t","r","u","e">>, <<"y","e","s">>, <<"c","o","r","r","e","c","t">>, <<"r","i","g","h","t">>, <<"a","c","c","u","r","a","t","e">>} >>,
       << <<"y","e","s">>, {<<"n","o">>, <<"f","a","l","s","e">>, <<"i","n","c","o","r","r","e","c","t">>, <<"w","r","o","n","g">>} >>,
       << <<"n","o">>, {<<"y","e","s">>, <<"t","r","u","e">>, <<"c","o","r","r","e","c","t">>, <<"r","i","g","h","t">>} >>,
       << <<"e","x","i","s","t","s">>, {<<"d","o","e","s","n","'","t"," ","e","x","i","s","t">>, <<"a","b","s","e","n","t">>, <<"u","n","a","v","a","i","l","a","b","l","e">>} >>,
       << <<"d","o","e","s","n","'","t"," ","e","x","i","s","t">>, {<<"e","x","i","s","t","s">>, <<"p","r","e","s","e","n","t">>, <<"a","v","a","i","l","a","b","l","e">>} >>,
       << <<"p","r","e","s","e","n","t">>, {<<"a","b","s","e","n","t">>, <<"u","n","a","v","a","i","l","a","b","l","e">>, <<"d","o","e","s","n","'","t"," ","e","x","i","s","t">>} >>,
       << <<"a","b","s","e","n","t">>, {<<"p","r","e","s","e","n","t">>, <<"a","v","a","i","l","a","b","l","e">>, <<"e","x","i","s","t","s">>} >> >>

\* opposites[a]?.includes(b)
OppositeIncludes(a, b) ==
    \E k \in DOMAIN BooleanOpposites :
        BooleanOpposites[k][1] = a /\ b \in BooleanOpposites[k][2]

\* variant: the opposites table is consulted for the first fact only
areFactsContradictoryOneWay(fact1, fact2) ==
    IF fact1.type = "boolean"
    THEN OppositeIncludes(toLowerCase(fact1.value), toLowerCase(fact2.value))
    ELSE IF fact1.type \in {"date", "quantity", "name"} THEN fact1.value # fact2.value
    ELSE FALSE

\* variant: quantities are never contradictory
areFactsContradictoryNoQuantity(fact1, fact2) ==
    IF fact1.type = "boolean"
    THEN OppositeIncludes(toLowerCase(fact1.value), toLowerCase(fact2.value))
         \/ OppositeIncludes(toLowerCase(fact2.value), toLowerCase(fact1.value))
    ELSE IF fact1.type \in {"date", "name"} THEN fact1.value # fact2.value
    ELSE FALSE

areFactsContradictory(fact1, fact2) ==
    IF fact1.type = "boolean"
    THEN LET fact1Lower == toLowerCase(fact1.value)
             fact2Lower == toLowerCase(fact2.value)
         IN  OppositeIncludes(fact1Lower, fact2Lower) \/ OppositeIncludes(fact2Lower, fact1Lower)
    ELSE IF fact1.type \in {"date", "quantity", "name"}
         THEN fact1.value # fact2.value
         ELSE FALSE

findFactualContradictions(facts1, facts2) ==
    LET types == DistinctInOrder([k \in 1..Len(facts1) |-> facts1[k].type])   \* Object.keys(facts1ByType)
        OfType(facts, t) == SelectSeq(facts, LAMBDA f : f.type = t)
        Against(fact1, t) ==
            LET hits == SelectSeq(OfType(facts2, t), LAMBDA fact2 : areFactsContradictory(fact1, fact2))
            IN  [k \in DOMAIN hits |-> <<t, fact1.value, hits[k].value>>]
    IN  Concat([n \in DOMAIN types |->
            LET mine == OfType(facts1, types[n])
            IN  Concat([k \in DOMAIN mine |-> Against(mine[k], types[n])])])

(***************************************************************************)
(* Procedural layer                                                        *)
(***************************************************************************)
\* [positive, ...negatives]
ActionOpposites ==
    << << <<"c","l","i","c","k">>, {<<"d","o","n","'","t"," ","c","l","i","c","k">>, <<"a","v","o","i","d"," ","c","l","i","c","k","i","n","g">>} >>,
       << <<"s","e","l","e","c","t">>, {<<"d","e","s","e","l","e","c","t">>, <<"u","n","s","e","l","e","c","t">>} >>,
       << <<"e","n","a","b","l","e">>, {<<"d","i","s","a","b","l","e">>} >>,
       << <<"t","u","r","n"," ","o","n">>, {<<"t","u","r","n"," ","o","f","f">>} >>,
       << <<"s","t","a","r","t">>, {<<"s","t","o","p">>} >>,
       << <<"b","e","g","i","n">>, {<<"e","n","d">>} >>,
       << <<"o","p","e","n">>, {<<"c","l","o","s","e">>} >>,
       << <<"a","d","d">>, {<<"r","e","m","o","v","e">>, <<"d","e","l","e","t","e">>} >>,
       << <<"i","n","c","l","u","d","e">>, {<<"e","x","c","l","u","d","e">>} >>,
       << <<"a","l","l","o","w">>, {<<"p","r","e","v","e","n","t">>, <<"b","l","o","c","k">>} >> >>

\* variant: the cue word is looked for in the first instruction only
areInstructionsContradictoryOneWay(inst1, inst2) ==
    \E k \in DOMAIN ActionOpposites :
        /\ includes(normalizeString(inst1), ActionOpposites[k][1])
        /\ \E neg \in ActionOpposites[k][2] : includes(normalizeString(inst2), neg)

areInstructionsContradictory(inst1, inst2) ==
    LET inst1Norm == normalizeString(inst1)
        inst2Norm == normalizeString(inst2)
    IN  \E k \in DOMAIN ActionOpposites :
            LET positive == ActionOpposites[k][1]
                negatives == ActionOpposites[k][2]
                hasPositive1 == includes(inst1Norm, positive)
                hasNegative1 == \E neg \in negatives : includes(inst1Norm, neg)
                hasPositive2 == includes(inst2Norm, positive)
                hasNegative2 == \E neg \in negatives : includes(inst2Norm, neg)
            IN  (hasPositive1 /\ hasNegative2) \/ (hasNegative1 /\ hasPositive2)

\* the instruction windows around the step matches of one text
instructionsOf(text, steps) ==
    [k \in DOMAIN steps |-> substring(text, Max(0, steps[k].index - 50), steps[k].index + 100)]

\* the positions i at which the i-th instructions of the two texts contradict
contradictoryInstructions(instructions1, instructions2) ==
    IF Len(instructions1) > 0 /\ Len(instructions2) > 0
    THEN SelectSeq([i \in 1..Min(Len(instructions1), Len(instructions2)) |-> i],
                   LAMBDA i : areInstructionsContradictory(instructions1[i], instructions2[i]))
    ELSE <<>>

findProceduralContradictions(text1, text2) ==
    contradictoryInstructions(instructionsOf(text1, matchAll(text1, "step")),
                              instructionsOf(text2, matchAll(text2, "step")))

(***************************************************************************)
(* Temporal / quantitative "same event" layer                              *)
(***************************************************************************)
\* new Set(str.split(/\s+/)) : the maximal runs of non-whitespace, and "" where the
\* string is empty or starts or ends in whitespace
SplitWords(s) ==
    LET starts == {a \in 1..Len(s) : s[a] \notin WhiteSpace /\ (a = 1 \/ s[a - 1] \in WhiteSpace)}
        EndOf(a) == LET stop == {e \in a..Len(s) : s[e] \in WhiteSpace}
                    IN  IF stop = {} THEN Len(s) ELSE SetMin(stop) - 1
    IN  {SubSeq(s, a, EndOf(a)) : a \in starts}
        \cup (IF s = <<>> \/ s[1] \in WhiteSpace \/ s[Len(s)] \in WhiteSpace THEN {<<>>} ELSE {})

areContextsSimilar(context1, context2) ==
    LET norm1 == normalizeString(context1)
        norm2 == normalizeString(context2)
        words1 == SplitWords(norm1)
        words2 == SplitWords(norm2)
        intersection == words1 \cap words2
        union == words1 \cup words2
    IN  \* similarity = intersection.size / union.size > 0.3
        10 * Cardinality(intersection) > 3 * Cardinality(union)

\* the (i, j) pairs of two match lists, i outer and j inner, as the loops visit them
PairsInOrder(n1, n2) == [p \in 1..(n1 * n2) |-> <<((p - 1) \div n2) + 1, ((p - 1) % n2) + 1>>]

\* the pairs of dates that differ in similar contexts
differingDates(text1, text2, dates1, dates2) ==
    IF Len(dates1) > 0 /\ Len(dates2) > 0
    THEN SelectSeq(PairsInOrder(Len(dates1), Len(dates2)),
                   LAMBDA p :
                       /\ dates1[p[1]].m1 # dates2[p[2]].m1
                       /\ areContextsSimilar(
                              ContextWindow(text1, dates1[p[1]].index, Len(dates1[p[1]].m1), 30, 30),
                              ContextWindow(text2, dates2[p[2]].index, Len(dates2[p[2]].m1), 30, 30)))
    ELSE <<>>

findTemporalContradictions(text1, text2) ==
    differingDates(text1, text2, matchAll(text1, "date"), matchAll(text2, "date"))

\* the pairs of quantities of one unit that differ in similar contexts
differingNumbers(text1, text2, numbers1, numbers2) ==
    IF Len(numbers1) > 0 /\ Len(numbers2) > 0
    THEN SelectSeq(PairsInOrder(Len(numbers1), Len(numbers2)),
                   LAMBDA p :
                       /\ toLowerCase(numbers1[p[1]].m2) = toLowerCase(numbers2[p[2]].m2)
                       /\ numbers1[p[1]].m1 # numbers2[p[2]].m1
                       /\ areContextsSimilar(
                              ContextWindow(text1, numbers1[p[1]].index, Len(numbers1[p[1]].m0), 30, 30),
                              ContextWindow(text2, numbers2[p[2]].index, Len(numbers2[p[2]].m0), 30, 30)))
    ELSE <<>>

findQuantitativeContradictions(text1, text2) ==
    differingNumbers(text1, text2, matchAll(text1, "quantity"), matchAll(text2, "quantity"))

(***************************************************************************)
(* detectSemanticContradictions: the engine detectConflicts calls          *)
(***************************************************************************)
detectSemanticContradictions(text1, text2) ==
    LET normalized1 == normalizeString(text1)
        normalized2 == normalizeString(text2)
    IN  IF normalized1 = normalized2 THEN FALSE
        ELSE \/ findFactualContradictions(extractFacts(normalized1), extractFacts(normalized2)) # <<>>
             \/ findProceduralContradictions(normalized1, normalized2) # <<>>
             \/ findTemporalContradictions(normalized1, normalized2) # <<>>
             \/ findQuantitativeContradictions(normalized1, normalized2) # <<>>

(***************************************************************************)
(* detectContradictions: the lexical patterns and the factual patterns.    *)
(* No function of the module calls it.                                     *)
(***************************************************************************)
\* the alternatives of pattern and of opposite of each entry, all with the flags gi
contradictionPatterns ==
    << [pattern  |-> <<<<"t","r","u","e">>, <<"y","e","s">>, <<"c","o","r","r","e","c","t">>, <<"r","i","g","h","t">>, <<"a","c","c","u","r","a","t","e">>>>,
        opposite |-> <<<<"f","a","l","s","e">>, <<"n","o">>, <<"i","n","c","o","r","r","e","c","t">>, <<"w","r","o","n","g">>, <<"i","n","a","c","c","u","r","a","t","e">>>>],
       [pattern  |-> <<<<"f","a","l","s","e">>, <<"n","o">>, <<"i","n","c","o","r","r","e","c","t">>, <<"w","r","o","n","g">>, <<"i","n","a","c","c","u","r","a","t","e">>>>,
        opposite |-> <<<<"t","r","u","e">>, <<"y","e","s">>, <<"c","o","r","r","e","c","t">>, <<"r","i","g","h","t">>, <<"a","c","c","u","r","a","t","e">>>>],
       [pattern  |-> <<<<"a","l","w","a","y","s">>, <<"n","e","v","e","r">>, <<"a","l","l">>, <<"e","v","e","r","y">>, <<"n","o","n","e">>>>,
        opposite |-> <<<<"s","o","m","e","t","i","m","e","s">>, <<"o","c","c","a","s","i","o","n","a","l","l","y">>, <<"s","o","m","e">>, <<"f","e","w">>, <<"r","a","r","e","l","y">>>>],
       [pattern  |-> <<<<"s","o","m","e","t","i","m","e","s">>, <<"o","c","c","a","s","i","o","n","a","l","l","y">>, <<"s","o","m","e">>, <<"f","e","w">>, <<"r","a","r","e","l","y">>>>,
        opposite |-> <<<<"a","l","w","a","y","s">>, <<"n","e","v","e","r">>, <<"a","l","l">>, <<"e","v","e","r","y">>, <<"n","o","n","e">>>>],
       [pattern  |-> <<<<"e","x","i","s","t","s">>, <<"p","r","e","s","e","n","t">>, <<"a","v","a","i","l","a","b","l","e">>, <<"f","o","u","n","d">>>>,
        opposite |-> <<<<"d","o","e","s","n","'","t"," ","e","x","i","s","t">>, <<"a","b","s","e","n","t">>, <<"u","n","a","v","a","i","l","a","b","l","e">>, <<"n","o","t"," ","f","o","u","n","d">>, <<"m","i","s","s","i","n","g">>>>],
       [pattern  |-> <<<<"d","o","e","s","n","'","t"," ","e","x","i","s","t">>, <<"a","b","s","e","n","t">>, <<"u","n","a","v","a","i","l","a","b","l","e">>, <<"n","o","t"," ","f","o","u","n","d">>, <<"m","i","s","s","i","n","g">>>>,
        opposite |-> <<<<"e","x","i","s","t","s">>, <<"p","r","e","s","e","n","t">>, <<"a","v","a","i","l","a","b","l","e">>, <<"f","o","u","n","d">>>>],
       [pattern  |-> <<<<"m","a","n","y">>, <<"m","u","l","t","i","p","l","e">>, <<"s","e","v","e","r","a","l">>, <<"n","u","m","e","r","o","u","s">>>>,
        opposite |-> <<<<"f","e","w">>, <<"s","i","n","g","l","e">>, <<"o","n","e">>, <<"l","i","m","i","t","e","d">>>>],
       [pattern  |-> <<<<"f","e","w">>, <<"s","i","n","g","l","e">>, <<"o","n","e">>, <<"l","i","m","i","t","e","d">>>>,
        opposite |-> <<<<"m","a","n","y">>, <<"m","u","l","t","i","p","l","e">>, <<"s","e","v","e","r","a","l">>, <<"n","u","m","e","r","o","u","s">>>>],
       [pattern  |-> <<<<"d","i","s","c","o","v","e","r","e","d">>, <<"f","o","u","n","d">>, <<"c","r","e","a","t","e","d">>, <<"i","n","v","e","n","t","e","d">>, <<"o","r","i","g","i","n","a","t","e","d">>>>,
        opposite |-> <<<<"n","o","t"," ","d","i","s","c","o","v","e","r","e","d">>, <<"n","o","t"," ","f","o","u","n","d">>, <<"n","o","t"," ","c","r","e","a","t","e","d">>, <<"n","o","t"," ","i","n","v","e","n","t","e","d">>, <<"d","i","d","n","'","t"," ","o","r","i","g","i","n","a","t","e">>>>],
       [pattern  |-> <<<<"n","o","t"," ","d","i","s","c","o","v","e","r","e","d">>, <<"n","o","t"," ","f","o","u","n","d">>, <<"n","o","t"," ","c","r","e","a","t","e","d">>, <<"n","o","t"," ","i","n","v","e","n","t","e","d">>, <<"d","i","d","n","'","t"," ","o","r","i","g","i","n","a","t","e">>>>,
        opposite |-> <<<<"d","i","s","c","o","v","e","r","e","d">>, <<"f","o","u","n","d">>, <<"c","r","e","a","t","e","d">>, <<"i","n","v","e","n","t","e","d">>, <<"o","r","i","g","i","n","a","t","e","d">>>>] >>

\* regex.test(text) of a regex with the g flag whose lastIndex is `lastIndex`: the
\* search starts at lastIndex; a match leaves lastIndex at its end, a failure at 0
test(alts, text, lastIndex) ==
    LET at == {e \in (lastIndex + 1)..Len(text) : FirstAlt(toLowerCase(text), e, alts) # 0}
    IN  IF at = {} THEN [found |-> FALSE, lastIndex |-> 0]
        ELSE [found |-> TRUE,
              lastIndex |-> SetMin(at) - 1 + Len(alts[FirstAlt(toLowerCase(text), SetMin(at), alts)])]

\* the condition of the if, the four tests having run in the order of the source
hasContradiction(hasPattern1, hasOpposite1, hasPattern2, hasOpposite2) ==
    (hasPattern1.found /\ hasOpposite2.found) \/ (hasOpposite1.found /\ hasPattern2.found)

\* one round of the loop: pattern and opposite are each tested on normalized1 and
\* then, the same regex object keeping its lastIndex, on normalized2
patternContradiction(entry, normalized1, normalized2) ==
    hasContradiction(test(entry.pattern, normalized1, 0),
                     test(entry.opposite, normalized1, 0),
                     test(entry.pattern, normalized2, test(entry.pattern, normalized1, 0).lastIndex),
                     test(entry.opposite, normalized2, test(entry.opposite, normalized1, 0).lastIndex))


\* the patterns of factualPatterns: year, quantity, name
factualPatterns == <<"year", "factQuantity", "factName">>

\* for (match1 of matches1) for (match2 of matches2) if (match1[1] !== match2[1])
differentCaptures(matches1, matches2) ==
    \E a \in DOMAIN matches1, b \in DOMAIN matches2 : matches1[a].m1 # matches2[b].m1

detectContradictions(text1, text2) ==
    LET normalized1 == normalizeString(text1)
        normalized2 == normalizeString(text2)
    IN  IF normalized1 = normalized2 THEN FALSE
        ELSE \/ \E n \in DOMAIN contradictionPatterns :
                    patternContradiction(contradictionPatterns[n], normalized1, normalized2)
             \/ \E n \in DOMAIN factualPatterns :
                    differentCaptures(matchAll(normalized1, factualPatterns[n]),
                                      matchAll(normalized2, factualPatterns[n]))

(***************************************************************************)
(* extractTextContent.  A rich-text field is a tagged value:               *)
(*   [kind |-> "undefined"], [kind |-> "string", str |-> s] or             *)
(*   [kind |-> "object", markdown |-> m, html |-> h]  (m, h may be         *)
(*   Undefined: the key is absent).                                        *)
(***************************************************************************)
\* the backquote character (the lexer admits no backquote inside a string)
Backquote == "bq"

NoValue == [kind |-> "undefined"]

Str(s) == [kind |-> "string", str |-> s]

Obj(m, h) == [kind |-> "object", markdown |-> m, html |-> h]

\* truthiness of a rich-text field
RichTruthy(v) == v.kind = "object" \/ (v.kind = "string" /\ v.str # <<>>)

\* first position e >= k where the literal t starts (0: none)
FindFrom(text, k, t) ==
    LET at == {e \in k..Len(text) : StartsAt(text, e, t)}
    IN  IF at = {} THEN 0 ELSE CHOOSE e \in at : \A f \in at : e <= f

AtLineStart(text, k) == k = 1 \/ text[k - 1] = "\n"

NoRewrite == [len |-> 0, out |-> <<>>]

\* open, a lazy run of any characters, close -> the run : lazy, "." does not cross a line break
Delimited(text, k, open, close) ==
    LET from == k + Len(open)
        e == FindFrom(text, from, close)
    IN  IF StartsAt(text, k, open) /\ e # 0 /\ \A d \in from..(e - 1) : text[d] # "\n"
        THEN [len |-> e + Len(close) - k, out |-> SubSeq(text, from, e - 1)]
        ELSE NoRewrite

\* ^\s*<marker>\s+ under the m flag, marker being one character of `marks` or \d+\.
LineMarker(text, k, marks, numbered) ==
    LET ws1 == RunLen(text, k, WhiteSpace)
        m   == k + ws1
        dl  == RunLen(text, m, Digit)
        ml  == IF numbered
               THEN (IF dl >= 1 /\ CharAt(text, m + dl) = "." THEN dl + 1 ELSE 0)
               ELSE (IF CharAt(text, m) \in marks THEN 1 ELSE 0)
        ws2 == RunLen(text, m + ml, WhiteSpace)
    IN  IF AtLineStart(text, k) /\ ml >= 1 /\ ws2 >= 1
        THEN [len |-> ws1 + ml + ws2, out |-> <<>>]
        ELSE NoRewrite

\* [text](target) -> text
LinkAt(text, k) ==
    LET rb == FindFrom(text, k + 1, <<"]">>)
        rp == IF rb = 0 THEN 0 ELSE FindFrom(text, rb + 2, <<")">>)
    IN  IF CharAt(text, k) = "[" /\ rb # 0 /\ CharAt(text, rb + 1) = "(" /\ rp # 0
        THEN [len |-> rp - k + 1, out |-> SubSeq(text, k + 1, rb - 1)]
        ELSE NoRewrite

\* the match of one replace() pattern at position k and what replaces it
MarkupAt(rx, text, k) ==
    CASE rx = "html" ->          \* /<[^>]*>/g
            LET e == FindFrom(text, k + 1, <<">">>)
            IN  IF CharAt(text, k) = "<" /\ e # 0 THEN [len |-> e - k + 1, out |-> <<>>] ELSE NoRewrite
      [] rx = "bold*"   -> Delimited(text, k, <<"*","*">>, <<"*","*">>)
      [] rx = "italic*" -> Delimited(text, k, <<"*">>, <<"*">>)
      [] rx = "bold_"   -> Delimited(text, k, <<"_","_">>, <<"_","_">>)
      [] rx = "italic_" -> Delimited(text, k, <<"_">>, <<"_">>)
      [] rx = "code"    -> Delimited(text, k, <<Backquote>>, <<Backquote>>)
      [] rx = "fence"   ->       \* a fenced code block, three backquotes to the next three, removed
            LET e == FindFrom(text, k + 3, <<Backquote, Backquote, Backquote>>)
            IN  IF StartsAt(text, k, <<Backquote, Backquote, Backquote>>) /\ e # 0 THEN [len |-> e + 3 - k, out |-> <<>>] ELSE NoRewrite
      [] rx = "header"  ->       \* /#{1,6}\s+/g
            LET r == RunLen(text, k, {"#"})
                ws == RunLen(text, k + r, WhiteSpace)
            IN  IF r >= 1 /\ r <= 6 /\ ws >= 1 THEN [len |-> r + ws, out |-> <<>>] ELSE NoRewrite
      [] rx = "link"    -> LinkAt(text, k)
      [] rx = "image"   ->       \* ![text](target) -> text
            LET l == LinkAt(text, k + 1)
            IN  IF CharAt(text, k) = "!" /\ l.len > 0 THEN [len |-> l.len + 1, out |-> l.out] ELSE NoRewrite
      [] rx = "list"    -> LineMarker(text, k, {"-", "*", "+"}, FALSE)
      [] rx = "number"  -> LineMarker(text, k, {}, TRUE)
      [] rx = "quote"   -> LineMarker(text, k, {">"}, FALSE)
      [] rx = "rule"    ->       \* /---+/g
            LET r == RunLen(text, k, {"-"})
            IN  IF r >= 3 THEN [len |-> r, out |-> <<>>] ELSE NoRewrite
      [] rx = "newlines" ->      \* /\n{3,}/g -> "\n\n"
            LET r == RunLen(text, k, {"\n"})
            IN  IF r >= 3 THEN [len |-> r, out |-> <<"\n","\n">>] ELSE NoRewrite

\* text.replace(rx, ...) with the g flag (`at` holds the positions where rx matches)
RECURSIVE ReplaceFrom(_, _, _, _, _)
ReplaceFrom(rx, text, at, k, acc) ==
    LET rest == {e \in at : e >= k}
    IN  IF rest = {} THEN acc \o SubSeq(text, k, Len(text))
        ELSE LET e == SetMin(rest)
                 m == MarkupAt(rx, text, e)
             IN  ReplaceFrom(rx, text, at, e + m.len, acc \o SubSeq(text, k, e - 1) \o m.out)

replaceAll(text, rx) ==
    ReplaceFrom(rx, text, {e \in 1..Len(text) : MarkupAt(rx, text, e).len > 0}, 1, <<>>)

MarkupPipeline ==
    << "html", "bold*", "italic*", "bold_", "italic_", "code", "fence", "header",
       "link", "image", "list", "number", "quote", "rule", "newlines" >>

RECURSIVE ApplyReplaces(_, _)
ApplyReplaces(text, n) ==
    IF n = 0 THEN text
    ELSE replaceAll(ApplyReplaces(text, n - 1), MarkupPipeline[n])

\* JSON.stringify of a wrapper object whose markdown and html are both falsy
StringifyObject(v) ==
    LET md == IF v.markdown = Undefined THEN <<>> ELSE <<"\"","m","a","r","k","d","o","w","n","\"",":","\"","\"">>
        ht == IF v.html = Undefined THEN <<>> ELSE <<"\"","h","t","m","l","\"",":","\"","\"">>
        sep == IF md # <<>> /\ ht # <<>> THEN <<",">> ELSE <<>>
    IN  <<"{">> \o md \o sep \o ht \o <<"}">>

extractTextContent(content) ==
    IF ~RichTruthy(content) THEN <<>>
    ELSE LET unwrapped ==
                 IF content.kind = "string" THEN content.str
                 ELSE IF Truthy(content.markdown) THEN content.markdown
                 ELSE IF Truthy(content.html) THEN content.html
                 ELSE StringifyObject(content)
         IN  trim(ApplyReplaces(unwrapped, Len(MarkupPipeline)))

(***************************************************************************)
(* Records.  A record (YextEntity) carries id, meta.id (metaId),           *)
(* meta.entityType (entityType), name, description, content, answer,       *)
(* mainPhone, websiteUrl: a string or Undefined; and the rich-text fields  *)
(* body, bodyV2, richTextDescription, richText.                            *)
(***************************************************************************)
FaqTypes == {<<"f","a","q">>, <<"c","e","_","f","a","q">>}

ExcludedTypes == {<<"l","o","c","a","t","i","o","n">>, <<"c","e","_","l","o","c","a","t","i","o","n">>, <<"b","u","f","o">>, <<"c","e","_","b","u","f","o">>}

BookTypes == {<<"b","o","o","k">>, <<"c","e","_","b","o","o","k">>}

\* variant: no fallback to the literal
EntityIdNoFallback(entity) == Or(entity.metaId, entity.id)

\* entity.meta?.id || entity.id || "unknown"
EntityId(entity) == Or(Or(entity.metaId, entity.id), <<"u","n","k","n","o","w","n">>)

\* entity.name || "Unknown Entity"
EntityName(entity) == Or(entity.name, <<"U","n","k","n","o","w","n"," ","E","n","t","i","t","y">>)

EntityRef(entity) ==
    [id |-> EntityId(entity), name |-> EntityName(entity), type |-> entity.entityType]

\* entity.meta?.entityType || "unknown"
BucketOf(entity) == Or(entity.entityType, <<"u","n","k","n","o","w","n">>)

NameThresholdTenths == 3

ValueMaxLen == 100

\* text.substring(0, 100) + "..."
Truncated(text) == substring(text, 0, ValueMaxLen) \o <<".",".",".">>

(***************************************************************************)
(* detectConflicts: FAQ grouping                                           *)
(***************************************************************************)
\* variant: only the plain faq type counts as a FAQ
IsFaqPlainOnly(e) == e.entityType = <<"f","a","q">>

IsFaq(e) == e.entityType \in FaqTypes

\* faq.answer || faq.description || ""
FaqAnswer(faq) == Or(Or(faq.answer, faq.description), <<>>)

FaqQuestion(faq) == normalizeString(Or(faq.name, <<>>))

\* conflictDetails.some(c => c.severity === "high") ? "high" : "medium"
faqSeverity(conflictDetails) ==
    IF \E k \in DOMAIN conflictDetails : conflictDetails[k].severity = "high"
    THEN "high" ELSE "medium"

faqGroupId(question) == <<"f","a","q","-","c","o","n","f","l","i","c","t","-">> \o question

faqGroup(question, faqs) ==
    LET conflictDetails ==
            << [field |-> "answer",
                values |-> [k \in 1..Len(faqs) |->
                               [entityId |-> EntityId(faqs[k]),
                                entityName |-> EntityName(faqs[k]),
                                value |-> Truncated(FaqAnswer(faqs[k]))]],
                conflictType |-> "faq_answer_conflict",
                severity |-> "high",
                description |-> <<Len(faqs), "FAQ entities with identical questions have different answers">>] >>
    IN  [id |-> faqGroupId(question),
         title |-> <<"F","A","Q"," ","C","o","n","f","l","i","c","t",":"," ","\"">> \o question \o <<"\"">>,
         entities |-> [k \in 1..Len(faqs) |-> EntityRef(faqs[k])],
         conflictDetails |-> conflictDetails,
         severity |-> faqSeverity(conflictDetails)]

faqConflicts(entities) ==
    LET faqEntities == SelectSeq(entities, IsFaq)
        questionGroups == DistinctInOrder([k \in 1..Len(faqEntities) |-> FaqQuestion(faqEntities[k])])
        GroupOf(question) ==
            LET faqs == SelectSeq(faqEntities, LAMBDA faq : FaqQuestion(faq) = question)
                uniqueAnswers == {normalizeString(FaqAnswer(faqs[k])) : k \in 1..Len(faqs)}
            IN  IF Len(faqs) > 1 /\ Cardinality(uniqueAnswers) > 1
                THEN <<faqGroup(question, faqs)>>
                ELSE <<>>
    IN  Concat([n \in 1..Len(questionGroups) |-> GroupOf(questionGroups[n])])

\* a field that holds the number 5 where the declared type is string
NumberFive == <<"\\number", "5">>

IsString(v) == v = <<>> \/ (v # Undefined /\ v[1] # "\\number")

\* str.toLowerCase() raises a TypeError when str is not a string
normalizeStringRaises(str) == ~IsString(str)

\* the answers of a question group of two or more records are normalized as they are
faqConflictsRaises(faqEntities) ==
    \E k, l \in 1..Len(faqEntities) :
        /\ k # l
        /\ FaqQuestion(faqEntities[k]) = FaqQuestion(faqEntities[l])
        /\ normalizeStringRaises(FaqAnswer(faqEntities[k]))

(***************************************************************************)
(* detectConflicts: pairwise comparison inside a category bucket           *)
(***************************************************************************)
\* variant: only the FAQ categories are left out of the pairwise pass
IsComparedNotFaq(e) == e.entityType \notin FaqTypes

IsCompared(e) == e.entityType \notin FaqTypes /\ e.entityType \notin ExcludedTypes

\* a || b || ... || ""
RECURSIVE FirstTruthy(_)
FirstTruthy(texts) ==
    IF texts = <<>> THEN <<>>
    ELSE IF Head(texts) # <<>> THEN Head(texts) ELSE FirstTruthy(Tail(texts))

\* typeof v === "string" ? v : ""
StringOrEmpty(v) == IF v = Undefined THEN <<>> ELSE v

RichStringOrEmpty(v) == IF v.kind = "string" THEN v.str ELSE <<>>

\* one operand of the || chain that selects the content, read as its branch reads it:
\*   "extract" : v ? extractTextContent(v) : ""
\*   "string"  : typeof v === "string" ? v : ""      (a plain text field)
\*   "rich"    : typeof v === "string" ? v : ""      (a rich-text field)
OperandText(how, v) ==
    CASE how = "extract" -> (IF RichTruthy(v) THEN extractTextContent(v) ELSE <<>>)
      [] how = "string"  -> StringOrEmpty(v)
      [] how = "rich"    -> RichStringOrEmpty(v)

\* content1 / content2 : the text selected for the comparison
selectContent(entity) ==
    LET operands ==
            IF entity.entityType \in BookTypes
            THEN << <<"extract", entity.bodyV2>>,
                    <<"extract", entity.body>>,
                    <<"string", entity.description>>,
                    <<"string", entity.content>>,
                    <<"extract", entity.richTextDescription>>,
                    <<"extract", entity.richText>> >>
            ELSE << <<"string", entity.description>>,
                    <<"string", entity.content>>,
                    <<"rich", entity.body>>,
                    <<"extract", entity.bodyV2>>,
                    <<"extract", entity.richTextDescription>>,
                    <<"extract", entity.richText>> >>
    IN  FirstTruthy([k \in 1..6 |-> OperandText(operands[k][1], operands[k][2])])

\* conflictField and conflictType of a content detail
conflictFieldOf(entity1, entity2, contradiction) ==
    IF RichTruthy(entity1.body) /\ RichTruthy(entity2.body)
    THEN [field |-> "body",
          type |-> IF contradiction THEN "body_content_contradiction" ELSE "body_content_conflict"]
    ELSE IF Truthy(entity1.content) /\ Truthy(entity2.content)
    THEN [field |-> "content",
          type |-> IF contradiction THEN "content_contradiction" ELSE "content_conflict"]
    ELSE IF Truthy(entity1.description) /\ Truthy(entity2.description)
    THEN [field |-> "description",
          type |-> IF contradiction THEN "description_contradiction" ELSE "description_conflict"]
    ELSE [field |-> "content", type |-> "inconsistent_data"]

\* variant: both entries name the first record
PairValuesOfFirst(entity1, entity2, value1, value2) ==
    << [entityId |-> EntityId(entity1), entityName |-> EntityName(entity1), value |-> value1],
       [entityId |-> EntityId(entity1), entityName |-> EntityName(entity1), value |-> value2] >>

PairValues(entity1, entity2, value1, value2) ==
    << [entityId |-> EntityId(entity1), entityName |-> EntityName(entity1), value |-> value1],
       [entityId |-> EntityId(entity2), entityName |-> EntityName(entity2), value |-> value2] >>

\* the detail pushed by either branch of the content check
contentDetail(entity1, entity2, entityType, nameSimilarity, content1, content2, contradiction) ==
    << [field |-> conflictFieldOf(entity1, entity2, contradiction).field,
        values |-> PairValues(entity1, entity2, Truncated(content1), Truncated(content2)),
        conflictType |-> conflictFieldOf(entity1, entity2, contradiction).type,
        severity |-> IF contradiction THEN "high" ELSE "medium",
        description |-> <<entityType, RoundPercent(nameSimilarity),
                          IF contradiction THEN "contradictory" ELSE "different",
                          conflictFieldOf(entity1, entity2, contradiction).field>>] >>

\* variant: a name similarity equal to the threshold is enough
contentCheckAtThreshold(entity1, entity2, entityType, nameSimilarity, content1, content2) ==
    IF /\ 10 * nameSimilarity.num >= NameThresholdTenths * nameSimilarity.den
       /\ content1 # <<>> /\ content2 # <<>>
       /\ normalizeString(content1) # normalizeString(content2)
    THEN contentDetail(entity1, entity2, entityType, nameSimilarity, content1, content2,
                       detectSemanticContradictions(content1, content2))
    ELSE <<>>

\* variant: isDifferent compares the contents as written
contentCheckAsWritten(entity1, entity2, entityType, nameSimilarity, content1, content2) ==
    IF /\ 10 * nameSimilarity.num > NameThresholdTenths * nameSimilarity.den
       /\ content1 # <<>> /\ content2 # <<>>
       /\ content1 # content2
    THEN contentDetail(entity1, entity2, entityType, nameSimilarity, content1, content2,
                       detectSemanticContradictions(content1, content2))
    ELSE <<>>

\* if (nameSimilarity > 0.3) ... if (content1 && content2) ... isDifferent, hasContradiction
contentCheck(entity1, entity2, entityType, nameSimilarity, content1, content2) ==
    IF /\ 10 * nameSimilarity.num > NameThresholdTenths * nameSimilarity.den
       /\ content1 # <<>> /\ content2 # <<>>
       /\ normalizeString(content1) # normalizeString(content2)
    THEN contentDetail(entity1, entity2, entityType, nameSimilarity, content1, content2,
                       detectSemanticContradictions(content1, content2))
    ELSE <<>>

contentDetails(entity1, entity2, entityType) ==
    contentCheck(entity1, entity2, entityType,
                 calculateSimilarity(normalizeString(Or(entity1.name, <<>>)),
                                     normalizeString(Or(entity2.name, <<>>))),
                 selectContent(entity1), selectContent(entity2))

\* variant: a shared phone is reported without comparing the display names
phoneDetailsAnyName(entity1, entity2) ==
    IF /\ Truthy(entity1.mainPhone) /\ Truthy(entity2.mainPhone)
       /\ normalizePhone(entity1.mainPhone) = normalizePhone(entity2.mainPhone)
    THEN << [field |-> "mainPhone",
             values |-> PairValues(entity1, entity2, entity1.mainPhone, entity2.mainPhone),
             conflictType |-> "phone_mismatch",
             severity |-> "medium",
             description |-> <<"Different entities sharing the same phone number">>] >>
    ELSE <<>>

phoneDetails(entity1, entity2) ==
    IF /\ Truthy(entity1.mainPhone) /\ Truthy(entity2.mainPhone)
       /\ normalizePhone(entity1.mainPhone) = normalizePhone(entity2.mainPhone)
       /\ entity1.name # entity2.name
    THEN << [field |-> "mainPhone",
             values |-> PairValues(entity1, entity2, entity1.mainPhone, entity2.mainPhone),
             conflictType |-> "phone_mismatch",
             severity |-> "medium",
             description |-> <<"Different entities sharing the same phone number">>] >>
    ELSE <<>>

urlDetails(entity1, entity2) ==
    IF /\ Truthy(entity1.websiteUrl) /\ Truthy(entity2.websiteUrl)
       /\ entity1.websiteUrl = entity2.websiteUrl
       /\ entity1.name # entity2.name
    THEN << [field |-> "websiteUrl",
             values |-> PairValues(entity1, entity2, entity1.websiteUrl, entity2.websiteUrl),
             conflictType |-> "url_mismatch",
             severity |-> "medium",
             description |-> <<"Different entities sharing the same website URL">>] >>
    ELSE <<>>

FirstFinding(content, phone, url) ==
    IF content # <<>> THEN content ELSE IF phone # <<>> THEN phone ELSE url

\* variant: the three checks chained by else, so that only the first finding is kept
pairDetailsFirstFinding(entity1, entity2, entityType) ==
    FirstFinding(contentDetails(entity1, entity2, entityType),
                 phoneDetails(entity1, entity2), urlDetails(entity1, entity2))

\* the conflictDetails accumulated for one pair
pairDetails(entity1, entity2, entityType) ==
    contentDetails(entity1, entity2, entityType)
        \o phoneDetails(entity1, entity2) \o urlDetails(entity1, entity2)

\* variant: medium is looked for before high
pairSeverityMediumFirst(conflictDetails) ==
    IF \E k \in DOMAIN conflictDetails : conflictDetails[k].severity = "medium" THEN "medium"
    ELSE IF \E k \in DOMAIN conflictDetails : conflictDetails[k].severity = "high" THEN "high"
    ELSE "low"

\* some(high) ? "high" : some(medium) ? "medium" : "low"
pairSeverity(conflictDetails) ==
    IF \E k \in DOMAIN conflictDetails : conflictDetails[k].severity = "high" THEN "high"
    ELSE IF \E k \in DOMAIN conflictDetails : conflictDetails[k].severity = "medium" THEN "medium"
    ELSE "low"

pairGroupId(entity1, entity2) ==
    <<"c","o","n","f","l","i","c","t","-">> \o Interpolate(entity1.name) \o <<"-">> \o Interpolate(entity2.name)

\* variant: a group is pushed for every compared pair
pairGroupAlways(entity1, entity2, conflictDetails) ==
    << [id |-> pairGroupId(entity1, entity2),
        title |-> pairGroupId(entity1, entity2),
        entities |-> <<EntityRef(entity1), EntityRef(entity2)>>,
        conflictDetails |-> conflictDetails,
        severity |-> pairSeverity(conflictDetails)] >>

\* if (conflictDetails.length > 0) conflicts.push({...})
pairGroup(entity1, entity2, conflictDetails) ==
    IF Len(conflictDetails) > 0
    THEN << [id |-> pairGroupId(entity1, entity2),
             title |-> <<"P","o","t","e","n","t","i","a","l"," ","c","o","n","f","l","i","c","t"," ","b","e","t","w","e","e","n"," ","\"">> \o Interpolate(entity1.name)
                          \o <<"\""," ","a","n","d"," ","\"">> \o Interpolate(entity2.name) \o <<"\"">>,
             entities |-> <<EntityRef(entity1), EntityRef(entity2)>>,
             conflictDetails |-> conflictDetails,
             severity |-> pairSeverity(conflictDetails)] >>
    ELSE <<>>

\* for (i ...) for (j = i + 1 ...) : the index pairs in the order the loops visit them
IndexPairs(n) == SelectSeq(PairsInOrder(n, n), LAMBDA p : p[1] < p[2])

pairConflicts(entities) ==
    LET nonFaqEntities == SelectSeq(entities, IsCompared)
        entityGroups == DistinctInOrder([k \in 1..Len(nonFaqEntities) |-> BucketOf(nonFaqEntities[k])])
        GroupOf(entityType) ==
            LET entityGroup == SelectSeq(nonFaqEntities, LAMBDA e : BucketOf(e) = entityType)
                pairs == IndexPairs(Len(entityGroup))
            IN  Concat([n \in 1..Len(pairs) |->
                    pairGroup(entityGroup[pairs[n][1]], entityGroup[pairs[n][2]],
                              pairDetails(entityGroup[pairs[n][1]], entityGroup[pairs[n][2]],
                                          entityType))])
    IN  Concat([n \in 1..Len(entityGroups) |-> GroupOf(entityGroups[n])])

\* variant: the pairwise groups are put before the FAQ groups
detectConflictsPairsFirst(entities) == pairConflicts(entities) \o faqConflicts(entities)

detectConflicts(entities) == faqConflicts(entities) \o pairConflicts(entities)

\* no try block inside detectConflicts: an exception of the FAQ pass leaves the function
detectConflictsRaises(entities) == faqConflictsRaises(SelectSeq(entities, IsFaq))

(***************************************************************************)
(* getConflictSummary                                                      *)
(***************************************************************************)
\* variant: a group is counted under every severity one of its details has
CountSeverityOfDetails(conflicts, severity) ==
    Len(SelectSeq(conflicts,
                  LAMBDA c : \E k \in DOMAIN c.conflictDetails : c.conflictDetails[k].severity = severity))

CountSeverity(conflicts, severity) ==
    Len(SelectSeq(conflicts, LAMBDA c : c.severity = severity))

\* variant: only the first two records of a group are collected
affectedEntitiesOfPairs(conflicts) ==
    UNION { {conflicts[g].entities[k].id :
                k \in {h \in 1..Min(2, Len(conflicts[g].entities)) : Truthy(conflicts[g].entities[h].id)}} :
            g \in 1..Len(conflicts) }

\* the Set filled by conflicts.forEach(... if (entity.id) affectedEntities.add(entity.id))
affectedEntities(conflicts) ==
    UNION { {conflicts[g].entities[k].id :
                k \in {h \in 1..Len(conflicts[g].entities) : Truthy(conflicts[g].entities[h].id)}} :
            g \in 1..Len(conflicts) }

getConflictSummary(conflicts) ==
    [totalConflicts |-> Len(conflicts),
     highSeverity |-> CountSeverity(conflicts, "high"),
     mediumSeverity |-> CountSeverity(conflicts, "medium"),
     lowSeverity |-> CountSeverity(conflicts, "low"),
     affectedEntities |-> Cardinality(affectedEntities(conflicts))]

(***************************************************************************)
(* Inputs: the records a detection run may be given                        *)
(***************************************************************************)
Entity(id, metaId, entityType, name, description, mainPhone, websiteUrl) ==
    [id |-> id, metaId |-> metaId, entityType |-> entityType, name |-> name,
     description |-> description, content |-> Undefined, answer |-> Undefined,
     mainPhone |-> mainPhone, websiteUrl |-> websiteUrl,
     body |-> NoValue, bodyV2 |-> NoValue,
     richTextDescription |-> NoValue, richText |-> NoValue]

\* the two texts of the contradiction example
OpenOnSundays == <<"T","h","e"," ","s","t","o","r","e"," ","i","s"," ","o","p","e","n"," ","o","n"," ","S","u","n","d","a","y","s">>

NotOpenOnSundays == <<"T","h","e"," ","s","t","o","r","e"," ","i","s"," ","n","o","t"," ","o","p","e","n"," ","o","n"," ","S","u","n","d","a","y","s">>

StoreOpen == Entity(<<"e","1">>, Undefined, <<"p","r","o","d","u","c","t">>, <<"S","t","o","r","e">>,
                    OpenOnSundays, <<"5","-","1">>, <<"u",".","c">>)

StoreNotOpen == Entity(<<"x","2">>, <<"e","2">>, <<"p","r","o","d","u","c","t">>, <<"S","t","o","r","e","!">>,
                       NotOpenOnSundays, <<"5","1">>, <<"u",".","c">>)

StoreOpenAgain == Entity(<<"e","3">>, Undefined, <<"p","r","o","d","u","c","t">>, <<"S","t","o","r","e","!">>,
                         <<"t","h","e"," ","s","t","o","r","e"," ","i","s"," ","o","p","e","n"," ","o","n"," ","s","u","n","d","a","y","s",".">>, <<"(","5",")","1">>, Undefined)

Cafe == [Entity(Undefined, Undefined, <<"p","r","o","d","u","c","t">>, <<"C","a","f","e">>, Undefined, <<"5","1">>, <<"u",".","c">>)
            EXCEPT !.content = <<"y","e","s">>]

Nameless == Entity(Undefined, Undefined, Undefined, Undefined, <<"n","o">>, <<"5","1">>, <<"v",".","c">>)

FaqFive == [Entity(<<"f","1">>, Undefined, <<"f","a","q">>, <<"H","o","u","r","s","?">>, Undefined, Undefined, Undefined)
               EXCEPT !.answer = <<"W","e"," ","c","l","o","s","e"," ","a","t"," ","5","p","m">>]

FaqNine == [Entity(<<"f","2">>, Undefined, <<"c","e","_","f","a","q">>, <<"h","o","u","r","s">>, <<"u","n","u","s","e","d">>, Undefined, Undefined)
               EXCEPT !.answer = <<"W","e"," ","c","l","o","s","e"," ","a","t"," ","9","p","m">>]

FaqFiveAgain == Entity(<<"f","3">>, Undefined, <<"f","a","q">>, <<"H","o","u","r","s">>, <<"w","e"," ","c","l","o","s","e"," ","a","t"," ","5","P","M","!">>, <<"5","1">>, <<"u",".","c">>)

MainOffice == Entity(<<"l","1">>, Undefined, <<"l","o","c","a","t","i","o","n">>, <<"M","a","i","n">>, <<"o","p","e","n">>, <<"5","1">>, <<"u",".","c">>)

WestOffice == Entity(<<"l","2">>, Undefined, <<"l","o","c","a","t","i","o","n">>, <<"W","e","s","t">>, <<"c","l","o","s","e","d">>, <<"5","-","1">>, <<"u",".","c">>)

CafeNo == Entity(<<"e","5">>, Undefined, <<"p","r","o","d","u","c","t">>, <<"C","a","f","e","!">>, <<"n","o">>, Undefined, <<"u",".","c">>)

GuideOpen == [Entity(<<"b","1">>, Undefined, <<"b","o","o","k">>, <<"G","u","i","d","e">>, <<"f","i","r","s","t">>, Undefined, Undefined)
                 EXCEPT !.bodyV2 = Obj(<<"*","*","f","i","r","s","t"," ","o","p","e","n","*","*"," ","i","t">>, Undefined)]

GuideClose == [Entity(<<"b","2">>, Undefined, <<"c","e","_","b","o","o","k">>, <<"G","u","i","d","e">>, Undefined, Undefined, Undefined)
                  EXCEPT !.bodyV2 = Obj(Undefined, <<"<","p",">","f","i","r","s","t"," ","c","l","o","s","e"," ","i","t","<","/","p",">">>)]

GuideBody == [Entity(<<"b","3">>, Undefined, <<"b","o","o","k">>, <<"G","u","i","d","e","s">>, Undefined, Undefined, Undefined)
                 EXCEPT !.body = Str(<<"#"," ","f","i","r","s","t"," ","c","l","o","s","e"," ","i","t">>)]

DashLeft == Entity(<<"d","1">>, Undefined, <<"m","e","n","u">>, <<"A","-","B">>, Undefined, <<"7","7">>, Undefined)

DashMid == Entity(<<"d","2">>, Undefined, <<"m","e","n","u">>, <<"A">>, Undefined, <<"7","-","7">>, Undefined)

DashRight == Entity(<<"d","3">>, Undefined, <<"m","e","n","u">>, <<"B","-","A">>, Undefined, <<"7"," ","7">>, Undefined)

FaqWifiYes == [Entity(<<"f","4">>, Undefined, <<"f","a","q">>, <<"W","i","f","i","?">>, Undefined, Undefined, Undefined) EXCEPT !.answer = <<"y","e","s">>]

FaqWifiNo == [Entity(<<"f","5">>, Undefined, <<"c","e","_","f","a","q">>, <<"w","i","f","i">>, Undefined, Undefined, Undefined) EXCEPT !.answer = <<"n","o">>]

FaqNumberAnswer == [Entity(<<"f","6">>, Undefined, <<"f","a","q">>, <<"H","o","u","r","s">>, Undefined, Undefined, Undefined) EXCEPT !.answer = NumberFive]

\* two records whose contents differ by a pair of terms of the lexical patterns
AlwaysShips == Entity(<<"s","1">>, Undefined, <<"s","e","r","v","i","c","e">>, <<"S","h","i","p","p","i","n","g">>, <<"W","e"," ","a","l","w","a","y","s"," ","s","h","i","p">>, Undefined, Undefined)

SometimesShips == Entity(<<"s","2">>, Undefined, <<"s","e","r","v","i","c","e">>, <<"S","h","i","p","p","i","n","g">>, <<"W","e"," ","s","o","m","e","t","i","m","e","s"," ","s","h","i","p">>, Undefined, Undefined)

\* two records whose normalized names have the similarity 3/10 exactly
EdgeLeft == Entity(<<"t","1">>, Undefined, <<"e","v","e","n","t">>, <<"a","b","c","d","e","f","g","h","i","j">>, <<"y","e","s">>, <<"4","2">>, Undefined)

EdgeRight == Entity(<<"t","2">>, Undefined, <<"e","v","e","n","t">>, <<"a","b","c","x","y","z","x","y","z","x">>, <<"n","o">>, <<"4","-","2">>, Undefined)

\* a record tagged with the name of the bucket of the untagged records
TaggedUnknown == Entity(<<"n","2">>, Undefined, <<"u","n","k","n","o","w","n">>, <<"O","t","h","e","r">>, <<"y","e","s">>, <<"5"," ","1">>, Undefined)

Catalogue ==
    { StoreOpen, StoreNotOpen, StoreOpenAgain, Cafe, Nameless,
      FaqFive, FaqNine, FaqFiveAgain, MainOffice, WestOffice,
      CafeNo, GuideOpen, GuideClose, GuideBody, DashLeft, DashMid, DashRight }

MaxEntities == 3

\* every order of the records of a set
Orders(records) ==
    {list \in [1..Cardinality(records) -> records] :
        \A i, j \in 1..Cardinality(records) : list[i] = list[j] => i = j}

\* lists of two FAQ questions, of a FAQ question and a category, of two categories,
\* of the two records with a pair of lexical terms, of the two records at the name
\* threshold, of an untagged record and a record tagged "unknown", of five
\* records of one category with every content outcome, and of FAQ records one of
\* which holds a number as its answer
MixedLists ==
    Orders({FaqFive, FaqNine, FaqWifiYes, FaqWifiNo})
        \cup Orders({FaqFive, FaqNine, DashLeft, DashMid})
        \cup Orders({DashLeft, DashMid, Cafe, CafeNo})
        \cup Orders({AlwaysShips, SometimesShips})
        \cup Orders({EdgeLeft, EdgeRight})
        \cup Orders({Nameless, TaggedUnknown})
        \cup Orders({StoreOpen, StoreNotOpen, StoreOpenAgain, Cafe, CafeNo})
        \cup Orders({FaqFive, FaqNumberAnswer})
        \cup Orders({FaqFive, FaqNine, FaqNumberAnswer})

\* the ordered, finite lists of records of at most MaxEntities records, and the mixed lists
InputLists == UNION { [1..n -> Catalogue] : n \in 0..MaxEntities } \cup MixedLists

(***************************************************************************)
(* The detection run: the caller holds a list of records, runs             *)
(* detectConflicts on it and then asks for the summary.                    *)
(***************************************************************************)
\* args and result belong to a caller of the text functions alone, see TextSpec
VARIABLES entities, conflicts, summary, pc, args, result,
          page, allEntities, hasMorePages,
          url, step, businessId, isLoading, error, pending

\* the locals of the pagination loop of POST /api/yext/entities
fetchVars == <<page, allEntities, hasMorePages>>

\* the state of the page component beside entities and conflicts, and the
\* requests it has sent that are not answered yet
wizardVars == <<url, step, businessId, isLoading, error, pending>>

vars == <<entities, conflicts, summary, pc, args, result, fetchVars, wizardVars>>

\* no request is being served
NoFetch == page = 0 /\ allEntities = 0 /\ hasMorePages = FALSE

\* the page component is not mounted
NoWizard == url = <<>> /\ step = "none" /\ businessId = <<>> /\ isLoading = FALSE /\ error = "" /\ pending = {}

NoSummary == [totalConflicts |-> 0, highSeverity |-> 0, mediumSeverity |-> 0,
              lowSeverity |-> 0, affectedEntities |-> 0]

Init ==
    /\ entities \in InputLists
    /\ conflicts = <<>>
    /\ summary = NoSummary
    /\ pc = "input"
    /\ args = <<>>
    /\ result = <<>>
    /\ NoFetch
    /\ NoWizard

Detect ==
    /\ pc = "input"
    /\ IF detectConflictsRaises(entities)
       THEN \* the catch block: setConflicts and setStep are skipped
            conflicts' = conflicts /\ pc' = "failed"
       ELSE conflicts' = detectConflicts(entities) /\ pc' = "detected"
    /\ UNCHANGED <<entities, summary, args, result, fetchVars, wizardVars>>

Summarize ==
    /\ pc = "detected"
    /\ summary' = getConflictSummary(conflicts)
    /\ pc' = "summarized"
    /\ UNCHANGED <<entities, conflicts, args, result, fetchVars, wizardVars>>

Next == Detect \/ Summarize

Spec == Init /\ [][Next]_vars

(***************************************************************************)
(* The text functions on their own: a caller holds two texts and applies   *)
(* one of the functions of the engine to them.                             *)
(***************************************************************************)
MaxWordLen == 2

\* the words over a two-letter alphabet of at most MaxWordLen letters
Words == UNION { [1..n -> {"a", "b"}] : n \in 0..MaxWordLen }

\* texts with letter case, punctuation and whitespace in the places normalizeString
\* treats differently
MarkedTexts ==
    { <<" ","H","!"," "," ","Y","-","u">>, <<"!"," ","a">>, <<"a"," ","!">>, <<"a"," ","!"," ","b">>, <<"a","-","b">>, <<"A","_","b","\t","\n","c">>, <<" "," ">>, <<"?">>,
      <<"k","i","t","t","e","n">>, <<"s","i","t","t","i","n","g">>, <<"a","b">>, <<"b","a">>, <<"a","b","c">> }

\* texts with terms of the pattern tables, at different positions
TermTexts ==
    { <<"y","e","s">>, <<"n","o">>, <<"y","e","s"," ","n","o">>, <<"o","h"," ","y","e","s">>, <<"A","l","w","a","y","s">>, <<"s","o","m","e","t","i","m","e","s">>, <<"1","9","9","9">>, <<"2","0","0","4">> }

Texts == Words \cup MarkedTexts \cup TermTexts

NoResult == <<"none">>

TextInit ==
    /\ args \in Texts \X Texts
    /\ result = NoResult
    /\ pc = "args"
    /\ entities = <<>>
    /\ conflicts = <<>>
    /\ summary = NoSummary
    /\ NoFetch
    /\ NoWizard

Normalize ==
    /\ pc = "args"
    /\ result' = normalizeString(args[1])
    /\ pc' = "normalized"
    /\ UNCHANGED <<args, entities, conflicts, summary, fetchVars, wizardVars>>

Similarity ==
    /\ pc = "args"
    /\ result' = calculateSimilarity(args[1], args[2])
    /\ pc' = "compared"
    /\ UNCHANGED <<args, entities, conflicts, summary, fetchVars, wizardVars>>

Contradictions ==
    /\ pc = "args"
    /\ result' = detectContradictions(args[1], args[2])
    /\ pc' = "checked"
    /\ UNCHANGED <<args, entities, conflicts, summary, fetchVars, wizardVars>>

TextNext == Normalize \/ Similarity \/ Contradictions

TextSpec == TextInit /\ [][TextNext]_vars

(***************************************************************************)
(* A caller of the layers of the contradiction engine: it holds two texts  *)
(* and runs one layer, or the whole engine, on them.                       *)
(***************************************************************************)
\* texts with dates, quantities, names and boolean terms
FactTexts ==
    { <<"1","9","9","9"," ","2","0","0","4">>, <<"2","0","0","4"," ","1","9","9","9">>, <<"1","9","9","9">>, <<"y","e","s">>, <<"n","o">>, <<"t","r","u","e">>, <<"w","r","o","n","g">>, <<"c","o","r","r","e","c","t">>,
      <<"5"," ","d","a","y","s">>, <<"6"," ","d","a","y","s">>, <<"5"," ","h","o","u","r","s">>, <<"c","a","l","l","e","d"," ","b","o","b">>, <<"c","a","l","l","e","d"," ","t","i","m">> }

\* a run of filler longer than an instruction window
Filler == [k \in 1..110 |-> "x"]

\* texts with ordered-instruction markers and action words; in the long text the
\* window of the first marker ends before "close" and the window of the second
\* marker starts after "open"
StepTexts ==
    { <<"f","i","r","s","t"," ","c","l","i","c","k"," ","i","t">>, <<"f","i","r","s","t"," ","d","o","n","'","t"," ","c","l","i","c","k"," ","i","t">>, <<"F","i","r","s","t",","," ","O","p","e","n"," ","i","t">>, <<"f","i","r","s","t"," ","c","l","o","s","e"," ","i","t">>,
      <<"t","h","e","n"," ","s","t","o","p"," ","n","e","x","t"," ","e","n","a","b","l","e">>, <<"t","h","e","n"," ","s","t","a","r","t"," ","n","e","x","t"," ","d","i","s","a","b","l","e">>, <<"o","p","e","n"," ","i","t">>,
      <<"f","i","r","s","t"," ","o","p","e","n"," ">> \o Filler \o <<" ","t","h","e","n"," ","c","l","o","s","e">> }

LayerTexts == FactTexts \cup StepTexts

LayerInit ==
    /\ args \in LayerTexts \X LayerTexts
    /\ result = NoResult
    /\ pc = "args"
    /\ entities = <<>>
    /\ conflicts = <<>>
    /\ summary = NoSummary
    /\ NoFetch
    /\ NoWizard

Facts ==
    /\ pc = "args"
    /\ result' = findFactualContradictions(extractFacts(args[1]), extractFacts(args[2]))
    /\ pc' = "facts"
    /\ UNCHANGED <<args, entities, conflicts, summary, fetchVars, wizardVars>>

Procedure ==
    /\ pc = "args"
    /\ result' = findProceduralContradictions(args[1], args[2])
    /\ pc' = "procedure"
    /\ UNCHANGED <<args, entities, conflicts, summary, fetchVars, wizardVars>>

\* the two layers that ask for a similar context, as the engine calls them
SameEvent ==
    /\ pc = "args"
    /\ result' = [temporal |-> findTemporalContradictions(normalizeString(args[1]), normalizeString(args[2])),
                  quantitative |-> findQuantitativeContradictions(normalizeString(args[1]), normalizeString(args[2]))]
    /\ pc' = "sameEvent"
    /\ UNCHANGED <<args, entities, conflicts, summary, fetchVars, wizardVars>>

Semantic ==
    /\ pc = "args"
    /\ result' = detectSemanticContradictions(args[1], args[2])
    /\ pc' = "semantic"
    /\ UNCHANGED <<args, entities, conflicts, summary, fetchVars, wizardVars>>

LayerNext == Facts \/ Procedure \/ SameEvent \/ Semantic

LayerSpec == LayerInit /\ [][LayerNext]_vars

(***************************************************************************)
(* POST /api/yext/entities: the pagination loop.  allEntities holds the    *)
(* length of the accumulated list.                                         *)
(***************************************************************************)
\* const limit = 50
limit == 50

\* if (page > 200) break
PageLimit == 200

\* the lengths of data.response.entities in an answer of the remote API; the
\* request asks for `limit` entities and the answer is taken as it comes
PageLengths == 0..(limit + 1)

\* the values of data.response.count (0 where the answer has none)
TotalCounts == {0, 2 * limit, 2 * PageLimit * limit}

FetchInit ==
    /\ page = 1
    /\ allEntities = 0
    /\ hasMorePages = TRUE
    /\ pc = "loop"
    /\ entities = <<>>
    /\ conflicts = <<>>
    /\ summary = NoSummary
    /\ args = <<>>
    /\ result = NoResult
    /\ NoWizard

\* one pass of the loop body with an ok response
FetchPage ==
    /\ pc = "loop"
    /\ hasMorePages
    /\ \E length \in PageLengths, totalCount \in TotalCounts :
          /\ allEntities' = allEntities + length
          /\ hasMorePages' = (length = limit /\ allEntities + length < totalCount)
    /\ page' = page + 1
    /\ pc' = IF page + 1 > PageLimit THEN "fetched" ELSE "loop"
    /\ UNCHANGED <<entities, conflicts, summary, args, result, wizardVars>>

\* if (!response.ok) return an error response
PageFails ==
    /\ pc = "loop"
    /\ hasMorePages
    /\ pc' = "failed"
    /\ UNCHANGED <<entities, conflicts, summary, args, result, fetchVars, wizardVars>>

\* while (hasMorePages) finds the condition false
LoopExit ==
    /\ pc = "loop"
    /\ ~hasMorePages
    /\ pc' = "fetched"
    /\ UNCHANGED <<entities, conflicts, summary, args, result, fetchVars, wizardVars>>

FetchNext == FetchPage \/ PageFails \/ LoopExit

FetchSpec == FetchInit /\ [][FetchNext]_vars

\* every request is answered and the route handler keeps running
FairFetchSpec == FetchSpec /\ WF_vars(FetchNext)

(***************************************************************************)
(* The page component: the three steps of the wizard.  `pending` holds the *)
(* requests to /api/yext/entities that are not answered yet, each with the *)
(* businessId of its body.                                                 *)
(***************************************************************************)
\* what the user may have typed into the URL field
Urls ==
    { <<>>, <<" "," ">>, <<"1","2">>, <<" ","3","4"," ">>, <<"5","6">>, <<"7","8">>, <<"a","b","c">>, <<"h","t","t","p","s",":","/","/","w","w","w",".","y","e","x","t",".","c","o","m","/","s","/","1","2","/","x">>,
      <<"w","w","w",".","y","e","x","t",".","c","o","m","/","s","/","a","b","/">>, <<"w","w","w",".","y","e","x","t",".","c","o","m","/","t","/","1","2","/">> }

\* the entities of the accounts the remote API knows
AccountIds == {<<"1","2">>, <<"3","4">>, <<"5","6">>}

AccountEntities(id) ==
    IF id = <<"1","2">> THEN <<StoreOpen, StoreNotOpen>>
    ELSE IF id = <<"3","4">> THEN <<Cafe, CafeNo>>
    ELSE <<MainOffice>>

\* /^\d+$/.test(s)
AllDigits(s) == Len(s) >= 1 /\ RunLen(s, 1, Digit) = Len(s)

\* the positions where /\/s\/(\d+)\// matches
BusinessIdMatches(text) ==
    {k \in 1..Len(text) :
        /\ StartsAt(text, k, <<"/","s","/">>)
        /\ RunLen(text, k + 3, Digit) >= 1
        /\ CharAt(text, k + 3 + RunLen(text, k + 3, Digit)) = "/"}

\* url.match(/\/s\/(\d+)\//)[1]
businessIdMatch(text) ==
    SubSeq(text, SetMin(BusinessIdMatches(text)) + 3,
           SetMin(BusinessIdMatches(text)) + 2 + RunLen(text, SetMin(BusinessIdMatches(text)) + 3, Digit))

WizardInit ==
    /\ url = <<>>
    /\ step = "url"
    /\ businessId = <<>>
    /\ isLoading = FALSE
    /\ error = ""
    /\ entities = <<>>
    /\ conflicts = <<>>
    /\ pending = {}
    /\ summary = NoSummary
    /\ pc = "mounted"
    /\ args = <<>>
    /\ result = NoResult
    /\ NoFetch

\* onChange of the URL field: setUrl(e.target.value)
setUrl ==
    /\ step = "url"
    /\ url' \in Urls
    /\ UNCHANGED <<step, businessId, isLoading, error, pending, entities, conflicts,
                   summary, pc, args, result, fetchVars>>

\* the form of the first step is submitted
handleUrlSubmit ==
    /\ step = "url"
    /\    IF trim(url) = <<>>
          THEN /\ error' = "Please enter a valid Yext knowledge graph URL or business ID"
               /\ UNCHANGED <<businessId, step>>
          ELSE IF AllDigits(trim(url))
          THEN /\ businessId' = trim(url)
               /\ step' = "api"
               /\ error' = ""
          ELSE IF ~includes(url, <<"y","e","x","t",".","c","o","m">>)
          THEN /\ error' = "Please enter a valid Yext knowledge graph URL"
               /\ UNCHANGED <<businessId, step>>
          ELSE IF BusinessIdMatches(url) = {}
          THEN /\ error' = "Could not extract business ID from URL"
               /\ UNCHANGED <<businessId, step>>
          ELSE /\ businessId' = businessIdMatch(url)
               /\ step' = "api"
               /\ error' = ""
    /\ UNCHANGED <<url, entities, conflicts, isLoading, pending, summary, pc, args, result, fetchVars>>

\* the form of the second step is submitted (its button is disabled while
\* isLoading): handleApiKeySubmit up to its first await
handleApiKeySubmit ==
    /\ step = "api"
    /\ ~isLoading
    /\ isLoading' = TRUE
    /\ error' = ""
    /\ pending' = pending \cup {[businessId |-> businessId]}
    /\ UNCHANGED <<url, step, businessId, entities, conflicts, summary, pc, args, result, fetchVars>>

\* a request is answered with the entities of its account: handleApiKeySubmit
\* from its first await on, response.ok
FetchSucceeds ==
    \E request \in pending :
        /\ request.businessId \in AccountIds
        /\ pending' = pending \ {request}
        /\ entities' = AccountEntities(request.businessId)
        /\ IF detectConflictsRaises(AccountEntities(request.businessId))
           THEN /\ error' = "TypeError"
                /\ UNCHANGED <<conflicts, step>>
           ELSE /\ conflicts' = detectConflicts(AccountEntities(request.businessId))
                /\ step' = "results"
                /\ UNCHANGED error
        /\ isLoading' = FALSE
        /\ UNCHANGED <<url, businessId, summary, pc, args, result, fetchVars>>

\* a request is answered with an error status, or not at all: the catch branch
FetchFails ==
    \E request \in pending :
        /\ pending' = pending \ {request}
        /\ error' = "Failed to fetch entities"
        /\ isLoading' = FALSE
        /\ UNCHANGED <<url, step, businessId, entities, conflicts, summary, pc, args, result, fetchVars>>

\* the Back button, shown on the second and third step
handleBack ==
    /\ step # "url"
    /\ IF step = "api"
       THEN /\ step' = "url"
            /\ businessId' = <<>>
            /\ UNCHANGED <<entities, conflicts>>
       ELSE /\ step' = "api"
            /\ entities' = <<>>
            /\ conflicts' = <<>>
            /\ UNCHANGED businessId
    /\ error' = ""
    /\ UNCHANGED <<url, isLoading, pending, summary, pc, args, result, fetchVars>>

WizardNext == setUrl \/ handleUrlSubmit \/ handleApiKeySubmit \/ FetchSucceeds \/ FetchFails \/ handleBack

WizardSpec == WizardInit /\ [][WizardNext]_vars

(***************************************************************************)
(* Properties of a detection run                                           *)
(***************************************************************************)
\* detectConflicts has returned from its run on `entities` and `conflicts` holds its result
Ran == pc \in {"detected", "summarized"}

\* the pairs of input positions, first before second
Pairs == {p \in (1..Len(entities)) \X (1..Len(entities)) : p[1] < p[2]}

SameCategory(a, b) == Or(a.entityType, <<"u","n","k","n","o","w","n">>) = Or(b.entityType, <<"u","n","k","n","o","w","n">>)

\* a category that is neither FAQ nor excluded
PairwiseCategory(e) == e.entityType \notin (FaqTypes \cup ExcludedTypes)

NameSimilarity(a, b) ==
    calculateSimilarity(normalizeString(Or(a.name, <<>>)), normalizeString(Or(b.name, <<>>)))

SimilarNames(a, b) == 10 * NameSimilarity(a, b).num > 3 * NameSimilarity(a, b).den

SameContent(a, b) == normalizeString(selectContent(a)) = normalizeString(selectContent(b))

ContactTypes == {"phone_mismatch", "url_mismatch"}

\* the groups of `conflicts` made of the records a and b, in this order
GroupsFor(a, b) ==
    {g \in 1..Len(conflicts) : conflicts[g].entities = <<EntityRef(a), EntityRef(b)>>}

HasDetailIn(details, types, severity) ==
    \E d \in 1..Len(details) :
        details[d].conflictType \in types /\ details[d].severity = severity

HasDetail(g, types, severity) == HasDetailIn(conflicts[g].conflictDetails, types, severity)

DetailTypes(details) == {details[d].conflictType : d \in 1..Len(details)}

\* C1: two records of one compared category with similar names whose contents are
\* "The store is open on Sundays" and "The store is not open on Sundays" get a
\* high-severity content detail: the engine classifies the texts as contradictory.
C1_NegationIsHighSeverity ==
    Ran => \A p \in Pairs :
        LET a == entities[p[1]]
            b == entities[p[2]]
        IN  ( /\ PairwiseCategory(a) /\ SameCategory(a, b) /\ SimilarNames(a, b)
              /\ selectContent(a) = OpenOnSundays
              /\ selectContent(b) = NotOpenOnSundays )
            => /\ detectSemanticContradictions(OpenOnSundays, NotOpenOnSundays)
               /\ \E g \in GroupsFor(a, b) :
                      \E d \in 1..Len(conflicts[g].conflictDetails) :
                          /\ conflicts[g].conflictDetails[d].severity = "high"
                          /\ conflicts[g].conflictDetails[d].conflictType \notin ContactTypes

\* the FAQ records of the input that ask the normalized question q, in input order
FaqMembers(q) ==
    SelectSeq(entities, LAMBDA e : e.entityType \in FaqTypes /\ normalizeString(Or(e.name, <<>>)) = q)

FaqQuestions ==
    {normalizeString(Or(entities[i].name, <<>>)) :
        i \in {k \in 1..Len(entities) : entities[k].entityType \in FaqTypes}}

FaqGroupsOf(q) == {g \in 1..Len(conflicts) : conflicts[g].id = <<"f","a","q","-","c","o","n","f","l","i","c","t","-">> \o q}

AnswersDiffer(members) ==
    Cardinality({normalizeString(Or(Or(members[k].answer, members[k].description), <<>>)) :
                    k \in 1..Len(members)}) > 1

\* C2: a normalized question shared by two or more FAQ records whose normalized
\* answers differ yields exactly one group, faq_answer_conflict and high, listing
\* every member in its entities and in its single detail's values; equal answers
\* yield no group; FAQ records appear in no other group.
C2_FaqGroups ==
    Ran =>
        /\ \A q \in FaqQuestions :
              LET members == FaqMembers(q)
              IN  IF Len(members) >= 2 /\ AnswersDiffer(members)
                  THEN /\ Cardinality(FaqGroupsOf(q)) = 1
                       /\ \A g \in FaqGroupsOf(q) :
                             /\ conflicts[g].severity = "high"
                             /\ Len(conflicts[g].conflictDetails) = 1
                             /\ conflicts[g].conflictDetails[1].conflictType = "faq_answer_conflict"
                             /\ conflicts[g].conflictDetails[1].severity = "high"
                             /\ conflicts[g].entities =
                                    [k \in 1..Len(members) |-> EntityRef(members[k])]
                             /\ [k \in 1..Len(members) |->
                                    conflicts[g].conflictDetails[1].values[k].entityId]
                                  = [k \in 1..Len(members) |-> EntityId(members[k])]
                             /\ Len(conflicts[g].conflictDetails[1].values) = Len(members)
                  ELSE FaqGroupsOf(q) = {}
        /\ \A g \in 1..Len(conflicts) :
              (\E k \in 1..Len(conflicts[g].entities) : conflicts[g].entities[k].type \in FaqTypes)
              => \E q \in FaqQuestions : g \in FaqGroupsOf(q)

\* C2 witness: a run that emitted the group of a question asked by three FAQ records
C2_Witness ==
    /\ Ran
    /\ \E q \in FaqQuestions :
          /\ Len(FaqMembers(q)) = 3
          /\ \E k \in 1..3 : FaqMembers(q)[k].entityType = <<"c","e","_","f","a","q">>
          /\ FaqGroupsOf(q) # {}

IsOne(similarity) == similarity.num = similarity.den

\* two records of one category, names of similarity 1.0, contents identical after
\* normalization
AgreeingPair(a, b) ==
    /\ SameCategory(a, b)
    /\ IsOne(NameSimilarity(a, b))
    /\ SameContent(a, b)

\* what the pair a, b may accumulate when only its contact fields can differ
ContactDetailsOnly(a, b, details) ==
    /\ DetailTypes(details) \subseteq ContactTypes
    /\ a.name = b.name => (details = <<>> /\ GroupsFor(a, b) = {})

\* C3 as stated: an agreeing pair accumulates zero ConflictDetails, whatever its raw
\* display names, phones and website URLs are.
C3_AgreeingPairHasNoDetail ==
    Ran => \A p \in Pairs :
        LET a == entities[p[1]]
            b == entities[p[2]]
        IN  AgreeingPair(a, b)
            => /\ pairDetails(a, b, BucketOf(a)) = <<>>
               /\ PairwiseCategory(a) => GroupsFor(a, b) = {}

\* C3 amended: an agreeing pair accumulates no content detail; it accumulates only
\* phone_mismatch and url_mismatch details, and with equal raw display names it
\* accumulates none and gets no group.
C3_AgreeingPairHasNoContentDetail ==
    Ran => \A p \in Pairs :
        AgreeingPair(entities[p[1]], entities[p[2]])
        => ContactDetailsOnly(entities[p[1]], entities[p[2]],
                              pairDetails(entities[p[1]], entities[p[2]], BucketOf(entities[p[1]])))

\* C3 witness: an agreeing pair of a compared category with different raw names that
\* got a group, and a record compared with its own copy, which carries a phone
C3_Witness ==
    /\ Ran
    /\ \E p \in Pairs :
          /\ AgreeingPair(entities[p[1]], entities[p[2]])
          /\ PairwiseCategory(entities[p[1]])
          /\ entities[p[1]].name # entities[p[2]].name
          /\ entities[p[1]].description # Undefined
          /\ GroupsFor(entities[p[1]], entities[p[2]]) # {}
    /\ \E p \in Pairs :
          /\ entities[p[1]] = entities[p[2]]
          /\ PairwiseCategory(entities[p[1]])
          /\ Truthy(entities[p[1]].mainPhone)

\* differently-named records whose phones hold the same digits
SharePhone(a, b) ==
    /\ a.name # b.name
    /\ Truthy(a.mainPhone) /\ Truthy(b.mainPhone)
    /\ KeepOnly(a.mainPhone, Digit) = KeepOnly(b.mainPhone, Digit)

PhoneDetailEmitted(a, b) ==
    /\ HasDetailIn(pairDetails(a, b, BucketOf(a)), {"phone_mismatch"}, "medium")
    /\ \E g \in GroupsFor(a, b) : HasDetail(g, {"phone_mismatch"}, "medium")

\* C4 as stated: any two differently-named records of the same category whose phones
\* normalize to the same digit string get a medium phone_mismatch detail.
C4_SharedPhoneAnyCategory ==
    Ran => \A p \in Pairs :
        (SameCategory(entities[p[1]], entities[p[2]]) /\ SharePhone(entities[p[1]], entities[p[2]]))
        => \E g \in GroupsFor(entities[p[1]], entities[p[2]]) : HasDetail(g, {"phone_mismatch"}, "medium")

\* C4 amended: two differently-named records of the same category, the category being
\* neither FAQ nor excluded, both with a non-empty phone, whose phones normalize to
\* the same digit string get a medium phone_mismatch detail, whatever the similarity
\* of their names.
C4_SharedPhoneComparedCategory ==
    Ran => \A p \in Pairs :
        ( /\ SameCategory(entities[p[1]], entities[p[2]])
          /\ PairwiseCategory(entities[p[1]])
          /\ SharePhone(entities[p[1]], entities[p[2]]) )
        => PhoneDetailEmitted(entities[p[1]], entities[p[2]])

\* C4 witness: a compared pair sharing phone digits written differently, with names
\* at or below the similarity threshold, and its group
C4_Witness ==
    /\ Ran
    /\ \E p \in Pairs :
          /\ SameCategory(entities[p[1]], entities[p[2]])
          /\ PairwiseCategory(entities[p[1]])
          /\ SharePhone(entities[p[1]], entities[p[2]])
          /\ entities[p[1]].mainPhone # entities[p[2]].mainPhone
          /\ ~SimilarNames(entities[p[1]], entities[p[2]])
          /\ PhoneDetailEmitted(entities[p[1]], entities[p[2]])

\* differently-named records carrying the identical website URL
ShareUrl(a, b) ==
    /\ a.name # b.name
    /\ Truthy(a.websiteUrl) /\ a.websiteUrl = b.websiteUrl

\* C5 as stated: any two differently-named records of the same category carrying the
\* identical website URL get a medium url_mismatch detail.
C5_SharedUrlAnyCategory ==
    Ran => \A p \in Pairs :
        (SameCategory(entities[p[1]], entities[p[2]]) /\ ShareUrl(entities[p[1]], entities[p[2]]))
        => \E g \in GroupsFor(entities[p[1]], entities[p[2]]) : HasDetail(g, {"url_mismatch"}, "medium")

\* C5 amended: two differently-named records of the same category, the category being
\* neither FAQ nor excluded, carrying the identical non-empty website URL get a medium
\* url_mismatch detail, whatever the similarity of their names and whether or not a
\* phone_mismatch or content detail was emitted too.
C5_SharedUrlComparedCategory ==
    Ran => \A p \in Pairs :
        ( /\ SameCategory(entities[p[1]], entities[p[2]])
          /\ PairwiseCategory(entities[p[1]])
          /\ ShareUrl(entities[p[1]], entities[p[2]]) )
        => \E g \in GroupsFor(entities[p[1]], entities[p[2]]) : HasDetail(g, {"url_mismatch"}, "medium")

\* C5 witness: a group holding a content detail, a phone_mismatch and a url_mismatch
C5_Witness ==
    /\ Ran
    /\ \E p \in Pairs :
          /\ ShareUrl(entities[p[1]], entities[p[2]])
          /\ \E g \in GroupsFor(entities[p[1]], entities[p[2]]) :
                /\ HasDetail(g, {"url_mismatch"}, "medium")
                /\ HasDetail(g, {"phone_mismatch"}, "medium")
                /\ Len(conflicts[g].conflictDetails) = 3

\* the input holds no record twice: its records have pairwise different identifiers
DistinctRecords ==
    \A i, j \in 1..Len(entities) : i # j => EntityId(entities[i]) # EntityId(entities[j])

\* C6: no two groups of one run have the same id (stated for an input whose records
\* have pairwise different identifiers).
C6_UniqueGroupIds ==
    (Ran /\ DistinctRecords) =>
        \A g, h \in 1..Len(conflicts) : g # h => conflicts[g].id # conflicts[h].id

SeverityRank(severity) ==
    CASE severity = "high" -> 3 [] severity = "medium" -> 2 [] severity = "low" -> 1

\* C7: the severity of every group is the maximum severity among its own details.
C7_GroupSeverityIsMax ==
    Ran => \A g \in 1..Len(conflicts) :
        LET details == conflicts[g].conflictDetails
        IN  /\ \E d \in 1..Len(details) : details[d].severity = conflicts[g].severity
            /\ \A d \in 1..Len(details) :
                  SeverityRank(details[d].severity) <= SeverityRank(conflicts[g].severity)

\* C7 witness: a group holding a high and a medium detail
C7_Witness ==
    /\ Ran
    /\ \E g \in 1..Len(conflicts) :
          /\ \E d \in 1..Len(conflicts[g].conflictDetails) :
                conflicts[g].conflictDetails[d].severity = "high"
          /\ \E d \in 1..Len(conflicts[g].conflictDetails) :
                conflicts[g].conflictDetails[d].severity = "medium"

\* C8: the summary's totalConflicts is the number of groups, and its three severity
\* counts add up to it.
C8_SummaryCounts ==
    pc = "summarized" =>
        /\ summary.totalConflicts = Len(conflicts)
        /\ summary.highSeverity + summary.mediumSeverity + summary.lowSeverity
              = summary.totalConflicts

\* C8 witness: a summary of several groups, high and medium
C8_Witness ==
    /\ pc = "summarized"
    /\ summary.highSeverity >= 1 /\ summary.mediumSeverity >= 1 /\ C7_Witness

\* the identifiers in the entities lists of all groups
GroupedIds ==
    UNION { {conflicts[g].entities[k].id : k \in 1..Len(conflicts[g].entities)} :
            g \in 1..Len(conflicts) }

\* C9: the summary's affectedEntities is the number of distinct identifiers in the
\* entities lists of all groups.
C9_AffectedEntities ==
    pc = "summarized" => summary.affectedEntities = Cardinality(GroupedIds)

\* C9 witness: a summary where a record takes part in several groups and a group
\* has more than two records
C9_Witness ==
    /\ pc = "summarized"
    /\ \E g, h \in 1..Len(conflicts) :
          /\ g # h
          /\ \E k \in 1..Len(conflicts[g].entities), l \in 1..Len(conflicts[h].entities) :
                conflicts[g].entities[k].id = conflicts[h].entities[l].id
    /\ summary.affectedEntities >= 3

(***************************************************************************)
(* Properties of the groups of a detection run                             *)
(***************************************************************************)
\* a values entry or an entities entry names the record e
NamesRecord(entryId, entryName, e) ==
    entryId = EntityId(e) /\ entryName = EntityName(e)

\* the entries of a values list come from pairwise different positions of the input
FromDistinctRecords(values) ==
    \E from \in [1..Len(values) -> 1..Len(entities)] :
        /\ \A k, l \in 1..Len(values) : from[k] = from[l] => k = l
        /\ \A k \in 1..Len(values) :
              NamesRecord(values[k].entityId, values[k].entityName, entities[from[k]])

\* C14: the values list of every ConflictDetail has at least two entries, and the
\* entries come from pairwise distinct records of the input.
C14_ValuesFromDistinctRecords ==
    Ran => \A g \in 1..Len(conflicts) :
        \A d \in 1..Len(conflicts[g].conflictDetails) :
            /\ Len(conflicts[g].conflictDetails[d].values) >= 2
            /\ FromDistinctRecords(conflicts[g].conflictDetails[d].values)

\* C14 witness: a detail with three entries of three different records, and a
\* detail of a pair
C14_Witness ==
    /\ Ran
    /\ \E g \in 1..Len(conflicts) :
          \E d \in 1..Len(conflicts[g].conflictDetails) :
              LET values == conflicts[g].conflictDetails[d].values
              IN  /\ Len(values) = 3
                  /\ Cardinality({values[k].entityId : k \in 1..3}) = 3

\* the position pairs the pairwise pass compares
ComparedPairs ==
    {p \in Pairs : PairwiseCategory(entities[p[1]]) /\ SameCategory(entities[p[1]], entities[p[2]])}

\* the details accumulated for the position pair p
DetailsOf(p) == pairDetails(entities[p[1]], entities[p[2]], BucketOf(entities[p[1]]))

RefsOf(p) == <<EntityRef(entities[p[1]]), EntityRef(entities[p[2]])>>

IsFaqGroup(g) ==
    /\ Len(conflicts[g].conflictDetails) > 0
    /\ conflicts[g].conflictDetails[1].conflictType = "faq_answer_conflict"

PairwiseGroups == {g \in 1..Len(conflicts) : ~IsFaqGroup(g)}

\* every compared pair with the details accumulated for it
PairFindings == {<<p, DetailsOf(p)>> : p \in ComparedPairs}

\* the group g holds the records of the pair and the details of the finding
Represents(g, finding) ==
    conflicts[g].entities = RefsOf(finding[1]) /\ conflicts[g].conflictDetails = finding[2]

\* every group of the pairwise pass holds the records and all the details of a
\* compared pair, and the pairs with the records and details of a finding have as
\* many groups as there are such pairs with details
OneGroupPerPair(findings) ==
    /\ \A g \in PairwiseGroups : \E finding \in findings : Represents(g, finding)
    /\ \A finding \in findings :
          Cardinality({g \in PairwiseGroups : Represents(g, finding)})
            = Cardinality({other \in findings :
                              /\ other[2] # <<>>
                              /\ RefsOf(other[1]) = RefsOf(finding[1])
                              /\ other[2] = finding[2]})
    /\ Cardinality(PairwiseGroups) = Cardinality({finding \in findings : finding[2] # <<>>})

\* C15: all the details found for a compared pair are in exactly one group; a pair
\* without a detail has no group; every group has a non-empty conflictDetails; no
\* pair is represented by two groups.
C15_OneGroupPerPair ==
    pc = "detected" =>
        /\ \A g \in 1..Len(conflicts) : Len(conflicts[g].conflictDetails) > 0
        /\ OneGroupPerPair(PairFindings)

\* C15 witness: of three records of one category, one pair has a group with two
\* details and another pair has none
C15_Witness ==
    /\ Ran
    /\ Cardinality(ComparedPairs) = 3
    /\ \E g \in PairwiseGroups : Len(conflicts[g].conflictDetails) >= 2
    /\ Cardinality(PairwiseGroups) < 3

\* the position of the first record of the input that satisfies Test
FirstPosition(Test(_)) ==
    CHOOSE k \in 1..Len(entities) :
        Test(entities[k]) /\ \A l \in 1..(k - 1) : ~Test(entities[l])

CategoryRank(e) ==
    FirstPosition(LAMBDA other : PairwiseCategory(other) /\ SameCategory(other, e))

QuestionRank(q) ==
    FirstPosition(LAMBDA other : other.entityType \in FaqTypes /\ normalizeString(Or(other.name, <<>>)) = q)

\* the pair p is visited before the pair q: earlier category, then earlier first
\* record, then earlier second record
PairBefore(p, q) ==
    \/ CategoryRank(entities[p[1]]) < CategoryRank(entities[q[1]])
    \/ /\ CategoryRank(entities[p[1]]) = CategoryRank(entities[q[1]])
       /\ (p[1] < q[1] \/ (p[1] = q[1] /\ p[2] < q[2]))

\* the elements of a finite set in the order Before puts them in
Ordered(S, Before(_, _)) ==
    [k \in 1..Cardinality(S) |->
        CHOOSE x \in S : Cardinality({y \in S : Before(y, x)}) = k - 1]

\* the questions that get a group, in first-seen order
ConflictingQuestions ==
    Ordered({q \in FaqQuestions : Len(FaqMembers(q)) > 1 /\ AnswersDiffer(FaqMembers(q))},
            LAMBDA q, r : QuestionRank(q) < QuestionRank(r))

\* the records of the groups, in the order the claim gives for the pairs `reported`
ExpectedEntities(questions, reported) ==
    [k \in 1..Len(questions) |->
        [m \in 1..Len(FaqMembers(questions[k])) |-> EntityRef(FaqMembers(questions[k])[m])]]
    \o [k \in 1..Len(reported) |-> RefsOf(reported[k])]

\* the pairs of the findings that have a detail
Reported(findings) == {finding[1] : finding \in {other \in findings : other[2] # <<>>}}

\* the groups are those of `questions` and then those of `reported`, in this order
GroupsInOrder(questions, reported) ==
    /\ [g \in 1..Len(conflicts) |-> conflicts[g].entities] = ExpectedEntities(questions, reported)
    /\ \A k \in 1..Len(questions) : conflicts[k].id = faqGroupId(questions[k])

\* C16: the FAQ groups come first, in the order their questions are first seen in
\* the input; the pairwise groups follow, by category in the order the categories
\* first occur, and inside a category in the order (i, j) of the nested loops.
C16_OutputOrder ==
    pc = "detected" =>
        GroupsInOrder(ConflictingQuestions, Ordered(Reported(PairFindings), PairBefore))

\* C16 witness: the input starts with a record of a category and ends with a FAQ
\* record, the first group of the output is a FAQ group and the last is not
C16_Witness ==
    /\ Ran
    /\ Len(conflicts) >= 2
    /\ entities[1].entityType \notin FaqTypes
    /\ entities[Len(entities)].entityType \in FaqTypes
    /\ IsFaqGroup(1)
    /\ ~IsFaqGroup(Len(conflicts))

\* meta.id, else id, else "unknown"
IdOrUnknown(e) ==
    IF Truthy(e.metaId) THEN e.metaId
    ELSE IF Truthy(e.id) THEN e.id
    ELSE <<"u","n","k","n","o","w","n">>

\* the identifier is the one the fallback chain gives for a record of the input
IsRecordId(id) ==
    /\ id # <<>> /\ id # Undefined
    /\ \E k \in 1..Len(entities) : id = IdOrUnknown(entities[k])

\* C17: every identifier in a group's entities list and in a detail's values list
\* is the record's meta.id, else its id, else the literal "unknown"; never empty.
C17_IdFallback ==
    Ran => \A g \in 1..Len(conflicts) :
        /\ \A k \in 1..Len(conflicts[g].entities) : IsRecordId(conflicts[g].entities[k].id)
        /\ \A d \in 1..Len(conflicts[g].conflictDetails) :
              \A k \in 1..Len(conflicts[g].conflictDetails[d].values) :
                  IsRecordId(conflicts[g].conflictDetails[d].values[k].entityId)

\* C17 witness: a group of a record without any identifier and a record whose
\* meta.id differs from its id
C17_Witness ==
    /\ Ran
    /\ \E g \in 1..Len(conflicts) :
          /\ conflicts[g].entities[1].id = <<"u","n","k","n","o","w","n">>
          /\ conflicts[g].entities[2].id = <<"e","2">>
          /\ conflicts[g].conflictDetails[1].values[1].entityId = <<"u","n","k","n","o","w","n">>
          /\ conflicts[g].conflictDetails[1].values[2].entityId = <<"e","2">>

\* C18: detectConflicts never raises, whatever the input list: records with missing
\* optional fields and records whose text fields hold a value that is neither a
\* string nor the {markdown, html} object still give a list of groups.
C18_NeverRaises ==
    pc # "failed"

\* the pattern loop of the lexical layer signals a contradiction for the two texts
LexicalSignal(text1, text2) ==
    \E n \in DOMAIN contradictionPatterns :
        patternContradiction(contradictionPatterns[n], normalizeString(text1), normalizeString(text2))

HighContentDetail(details) ==
    \E d \in 1..Len(details) :
        details[d].severity = "high" /\ details[d].conflictType \notin ContactTypes

\* the content check of the pair p is reached with two different, non-empty contents
ContentsCompared(content1, content2) ==
    /\ content1 # <<>> /\ content2 # <<>>
    /\ normalizeString(content1) # normalizeString(content2)

\* C19: for two contents with different normalized forms, the contradiction decision
\* of detectConflicts is true whenever one of the layers (lexical patterns, facts,
\* procedure, dates and quantities) signals; a lexical hit alone, such as "always"
\* against "sometimes", gives a high-severity content detail.
C19_AnyLayerIsHigh ==
    Ran => \A p \in ComparedPairs :
        ( /\ SimilarNames(entities[p[1]], entities[p[2]])
          /\ ContentsCompared(selectContent(entities[p[1]]), selectContent(entities[p[2]]))
          /\ \/ LexicalSignal(selectContent(entities[p[1]]), selectContent(entities[p[2]]))
             \/ detectSemanticContradictions(selectContent(entities[p[1]]), selectContent(entities[p[2]])) )
        => \E g \in GroupsFor(entities[p[1]], entities[p[2]]) :
               HighContentDetail(conflicts[g].conflictDetails)

\* the content details of a detail list
ContentDetailsIn(details) ==
    {d \in 1..Len(details) : details[d].conflictType \notin ContactTypes}

\* the group has exactly one content detail, of the given severity
OneContentDetail(details, severity) ==
    /\ Cardinality(ContentDetailsIn(details)) = 1
    /\ \A d \in ContentDetailsIn(details) : details[d].severity = severity

\* the outcome of the content check for two records with similar names and the
\* non-empty contents content1 and content2, the engine's answer being `contradictory`
ContentOutcome(groups, content1, content2, contradictory) ==
    IF normalizeString(content1) = normalizeString(content2)
    THEN \A g \in groups : ContentDetailsIn(conflicts[g].conflictDetails) = {}
    ELSE /\ groups # {}
         /\ \A g \in groups :
               OneContentDetail(conflicts[g].conflictDetails,
                                IF contradictory THEN "high" ELSE "medium")

\* C22: for a compared pair with similar names and two non-empty contents, contents
\* equal after normalization give no content detail, different contents that the
\* engine calls contradictory give exactly one high content detail, and different
\* contents that it does not give exactly one medium content detail.
C22_ContentOutcome ==
    pc = "detected" => \A p \in ComparedPairs :
        ( /\ SimilarNames(entities[p[1]], entities[p[2]])
          /\ selectContent(entities[p[1]]) # <<>>
          /\ selectContent(entities[p[2]]) # <<>> )
        => ContentOutcome(GroupsFor(entities[p[1]], entities[p[2]]),
                          selectContent(entities[p[1]]), selectContent(entities[p[2]]),
                          detectSemanticContradictions(selectContent(entities[p[1]]),
                                                       selectContent(entities[p[2]])))

\* C22 witness: one run with the three outcomes: a group without a content detail
\* for a pair with similar names and equal normalized contents, a group whose one
\* content detail is high and a group whose one content detail is medium
C22_Witness ==
    /\ pc = "detected"
    /\ \E p \in ComparedPairs :
          /\ SimilarNames(entities[p[1]], entities[p[2]])
          /\ selectContent(entities[p[1]]) # <<>>
          /\ SameContent(entities[p[1]], entities[p[2]])
          /\ \E g \in GroupsFor(entities[p[1]], entities[p[2]]) :
                ContentDetailsIn(conflicts[g].conflictDetails) = {}
    /\ \E g \in 1..Len(conflicts) : OneContentDetail(conflicts[g].conflictDetails, "high")
    /\ \E g \in 1..Len(conflicts) : OneContentDetail(conflicts[g].conflictDetails, "medium")

\* some group of the pair holds a detail of the type
DetailReported(groups, type) ==
    \E g \in groups : type \in DetailTypes(conflicts[g].conflictDetails)

\* C23: a pair gets a content detail only if the similarity of its normalized names
\* strictly exceeds the threshold; whatever the similarity, it gets a phone_mismatch
\* exactly when it shares a phone, and a url_mismatch exactly when it shares a URL.
C23_ContentNeedsSimilarNames ==
    pc = "detected" => \A p \in ComparedPairs :
        /\ (\E g \in GroupsFor(entities[p[1]], entities[p[2]]) :
                ContentDetailsIn(conflicts[g].conflictDetails) # {})
              => SimilarNames(entities[p[1]], entities[p[2]])
        /\ DetailReported(GroupsFor(entities[p[1]], entities[p[2]]), "phone_mismatch")
              <=> SharePhone(entities[p[1]], entities[p[2]])
        /\ DetailReported(GroupsFor(entities[p[1]], entities[p[2]]), "url_mismatch")
              <=> ShareUrl(entities[p[1]], entities[p[2]])

\* C23 witness: a pair whose name similarity equals the threshold and whose
\* contents differ gets a phone_mismatch and no content detail
C23_Witness ==
    /\ pc = "detected"
    /\ \E p \in ComparedPairs :
          /\ 10 * NameSimilarity(entities[p[1]], entities[p[2]]).num
                = 3 * NameSimilarity(entities[p[1]], entities[p[2]]).den
          /\ ~SameContent(entities[p[1]], entities[p[2]])
          /\ \E g \in GroupsFor(entities[p[1]], entities[p[2]]) :
                DetailTypes(conflicts[g].conflictDetails) = {"phone_mismatch"}

\* the category tag, "unknown" for a record without one
TagOrUnknown(type) == IF Truthy(type) THEN type ELSE <<"u","n","k","n","o","w","n">>

\* the position pairs inside one bucket of the records that are neither FAQ nor excluded
BucketPairs ==
    {p \in Pairs :
        /\ entities[p[1]].entityType \notin (FaqTypes \cup ExcludedTypes)
        /\ entities[p[2]].entityType \notin (FaqTypes \cup ExcludedTypes)
        /\ TagOrUnknown(entities[p[1]].entityType) = TagOrUnknown(entities[p[2]].entityType)}

\* the comparison of the two records finds something: a shared phone, a shared URL,
\* or different contents under similar names
FindsDetails(a, b) ==
    \/ SharePhone(a, b)
    \/ ShareUrl(a, b)
    \/ /\ selectContent(a) # <<>>
       /\ selectContent(b) # <<>>
       /\ ~SameContent(a, b)
       /\ SimilarNames(a, b)

\* C24: no record of a FAQ category or of an excluded category is in a pairwise
\* group; the two records of a pairwise group have the same category tag, records
\* without a tag counting as "unknown"; every pair of positions inside a bucket is
\* compared exactly once, so that the pairwise groups are as many as the pairs of a
\* bucket for which details are found.
C24_PairsInsideBuckets ==
    pc = "detected" =>
        /\ \A g \in PairwiseGroups :
              /\ Len(conflicts[g].entities) = 2
              /\ \A k \in 1..2 : conflicts[g].entities[k].type \notin (FaqTypes \cup ExcludedTypes)
              /\ TagOrUnknown(conflicts[g].entities[1].type) = TagOrUnknown(conflicts[g].entities[2].type)
        /\ Cardinality(PairwiseGroups)
              = Cardinality({p \in BucketPairs : FindsDetails(entities[p[1]], entities[p[2]])})

\* C24 witness: a group of a record without a tag and a record tagged "unknown"
C24_Witness ==
    /\ pc = "detected"
    /\ \E g \in PairwiseGroups :
          /\ conflicts[g].entities[1].type = Undefined
          /\ conflicts[g].entities[2].type = <<"u","n","k","n","o","w","n">>

\* the record carries the field: it holds a non-empty value
Carries(e, field) ==
    CASE field = "body"        -> RichTruthy(e.body)
      [] field = "content"     -> Truthy(e.content)
      [] field = "description" -> Truthy(e.description)
      [] OTHER                 -> FALSE

\* the text selected for the record is the text of the field
SelectedFrom(e, field) ==
    CASE field = "body"        -> selectContent(e) \in {extractTextContent(e.body), RichStringOrEmpty(e.body)}
      [] field = "content"     -> selectContent(e) = e.content
      [] field = "description" -> selectContent(e) = e.description
      [] OTHER                 -> FALSE

\* the conflict types of the family of a field
FamilyOf(field) ==
    CASE field = "body"        -> {"body_content_contradiction", "body_content_conflict"}
      [] field = "content"     -> {"content_contradiction", "content_conflict"}
      [] field = "description" -> {"description_contradiction", "description_conflict"}
      [] OTHER                 -> {}

\* C25: every content detail names a field that both records of the pair carry, its
\* conflictType is of the family of that field, and the field is the one whose text
\* was selected and compared for the pair.
C25_NamedFieldIsShared ==
    pc = "detected" => \A p \in ComparedPairs :
        \A g \in GroupsFor(entities[p[1]], entities[p[2]]) :
            \A d \in ContentDetailsIn(conflicts[g].conflictDetails) :
                /\ Carries(entities[p[1]], conflicts[g].conflictDetails[d].field)
                /\ Carries(entities[p[2]], conflicts[g].conflictDetails[d].field)
                /\ conflicts[g].conflictDetails[d].conflictType
                      \in FamilyOf(conflicts[g].conflictDetails[d].field)
                /\ SelectedFrom(entities[p[1]], conflicts[g].conflictDetails[d].field)
                /\ SelectedFrom(entities[p[2]], conflicts[g].conflictDetails[d].field)

(***************************************************************************)
(* Properties of the text functions                                        *)
(***************************************************************************)
\* C11: normalizeString is idempotent: normalizing a normalized string changes nothing.
C11_NormalizeIdempotent ==
    pc = "normalized" => normalizeString(result) = result

\* the unit-cost insert / delete / substitute edit distance of the suffixes of a and b
\* that start at i and j
RECURSIVE EditDistance(_, _, _, _)
EditDistance(a, b, i, j) ==
    IF i > Len(a) THEN Len(b) - j + 1
    ELSE IF j > Len(b) THEN Len(a) - i + 1
    ELSE IF a[i] = b[j] THEN EditDistance(a, b, i + 1, j + 1)
    ELSE 1 + Min3(EditDistance(a, b, i + 1, j),
                  EditDistance(a, b, i, j + 1),
                  EditDistance(a, b, i + 1, j + 1))

\* the fraction value equals (longest - distance) / longest
IsQuotient(value, longest, distance) ==
    value.num * longest = (longest - distance) * value.den

\* C12: calculateSimilarity(a, b) is 1 when both are empty, 0 when exactly one is
\* empty, and otherwise (max(|a|,|b|) - d) / max(|a|,|b|) with d the edit distance;
\* it lies in [0, 1] and is 1 for equal strings.
C12_SimilarityValue ==
    pc = "compared" =>
        /\ result.den > 0 /\ 0 <= result.num /\ result.num <= result.den
        /\ (args[1] = <<>> /\ args[2] = <<>>) => result.num = result.den
        /\ ((args[1] = <<>>) # (args[2] = <<>>)) => result.num = 0
        /\ (args[1] # <<>> /\ args[2] # <<>>) =>
              IsQuotient(result, Max(Len(args[1]), Len(args[2])),
                         EditDistance(args[1], args[2], 1, 1))
        /\ args[1] = args[2] => result.num = result.den

\* C12 witness: a similarity strictly between 0 and 1 of strings of different lengths
C12_Witness ==
    /\ pc = "compared"
    /\ Len(args[1]) # Len(args[2])
    /\ 0 < result.num /\ result.num < result.den

\* C13: calculateSimilarity is symmetric in its arguments.
C13_SimilaritySymmetric ==
    pc = "compared" => result = calculateSimilarity(args[2], args[1])

\* C13 witness: a comparison of two different non-empty strings of different lengths
C13_Witness ==
    /\ pc = "compared"
    /\ args[1] # <<>> /\ args[2] # <<>>
    /\ Len(args[1]) < Len(args[2])
    /\ result.num > 0

\* the text holds a match of one of the alternatives
Contains(text, alts) ==
    \E e \in 1..Len(text) : FirstAlt(text, e, alts) # 0

\* one text matches pattern and the other matches opposite
OppositeTerms(entry, text1, text2) ==
    \/ Contains(text1, entry.pattern) /\ Contains(text2, entry.opposite)
    \/ Contains(text1, entry.opposite) /\ Contains(text2, entry.pattern)

\* C20: for each entry (pattern, opposite) the lexical layer reports a hit exactly
\* when one text matches pattern and the other matches opposite, wherever the
\* matches are and whatever other terms the texts hold; detectContradictions
\* returns true for two different normalized texts when an entry has a hit.
C20_HitIsContainment ==
    pc = "checked" =>
        /\ \A n \in DOMAIN contradictionPatterns :
              patternContradiction(contradictionPatterns[n], normalizeString(args[1]), normalizeString(args[2]))
                <=> OppositeTerms(contradictionPatterns[n], normalizeString(args[1]), normalizeString(args[2]))
        /\ ( /\ normalizeString(args[1]) # normalizeString(args[2])
             /\ \E n \in DOMAIN contradictionPatterns :
                    OppositeTerms(contradictionPatterns[n], normalizeString(args[1]), normalizeString(args[2])) )
           => result = TRUE

(***************************************************************************)
(* Properties of the layers of the contradiction engine                    *)
(***************************************************************************)
\* the facts have the same type and, for a date, a quantity or a name, different
\* values, or, for a boolean, one value is among the opposites of the other
FactsDisagree(fact1, fact2) ==
    /\ fact1.type = fact2.type
    /\ \/ fact1.type \in {"date", "quantity", "name"} /\ fact1.value # fact2.value
       \/ /\ fact1.type = "boolean"
          /\ \E k \in DOMAIN BooleanOpposites :
                \/ /\ BooleanOpposites[k][1] = toLowerCase(fact1.value)
                   /\ toLowerCase(fact2.value) \in BooleanOpposites[k][2]
                \/ /\ BooleanOpposites[k][1] = toLowerCase(fact2.value)
                   /\ toLowerCase(fact1.value) \in BooleanOpposites[k][2]

SomeFactsDisagree(facts1, facts2) ==
    \E a \in DOMAIN facts1, b \in DOMAIN facts2 : FactsDisagree(facts1[a], facts2[b])

\* the values of the date facts
DatesOf(facts) == {facts[k].value : k \in {h \in DOMAIN facts : facts[h].type = "date"}}

\* both texts mention the same dates, two or more of them
SameSeveralDates(facts1, facts2) ==
    DatesOf(facts1) = DatesOf(facts2) /\ Cardinality(DatesOf(facts1)) >= 2

\* C21: the fact-based layer signals exactly when a fact of one text and a fact of
\* the other have the same type and differ in value (date, quantity, name) or are
\* opposites of the table (boolean); two different texts that mention the same
\* two dates are therefore contradictory.
C21_FactLayer ==
    pc = "facts" =>
        /\ (result # <<>>) <=> SomeFactsDisagree(extractFacts(args[1]), extractFacts(args[2]))
        /\ SameSeveralDates(extractFacts(args[1]), extractFacts(args[2])) => result # <<>>

\* C21 witness: two different texts with the same two dates, reported by the layer
C21_Witness ==
    /\ pc = "facts"
    /\ args[1] # args[2]
    /\ SameSeveralDates(extractFacts(args[1]), extractFacts(args[2]))
    /\ result # <<>>

\* the marker windows of a text, in the order of the markers
WindowsOf(text) == instructionsOf(text, matchAll(text, "step"))

\* for some action of the table, one window contains the cue word and the other
\* contains one of the opposites of the action
Opposed(window1, window2) ==
    \E k \in DOMAIN ActionOpposites :
        \/ /\ includes(toLowerCase(window1), ActionOpposites[k][1])
           /\ \E neg \in ActionOpposites[k][2] : includes(toLowerCase(window2), neg)
        \/ /\ includes(toLowerCase(window2), ActionOpposites[k][1])
           /\ \E neg \in ActionOpposites[k][2] : includes(toLowerCase(window1), neg)

OpposedAtSomeIndex(windows1, windows2) ==
    \E i \in 1..Min(Len(windows1), Len(windows2)) : Opposed(windows1[i], windows2[i])

\* C26: the procedural layer signals exactly when, for some index i up to the
\* shorter marker count, the i-th marker window of one text contains the cue word
\* of an action and the i-th marker window of the other text contains one of the
\* opposites of that action.
C26_ProceduralLayer ==
    pc = "procedure" =>
        ((result # <<>>) <=> OpposedAtSomeIndex(WindowsOf(args[1]), WindowsOf(args[2])))

\* the engine without its temporal and quantitative layers
FactsOrProcedure(normalized1, normalized2) ==
    IF normalized1 = normalized2 THEN FALSE
    ELSE \/ findFactualContradictions(extractFacts(normalized1), extractFacts(normalized2)) # <<>>
         \/ findProceduralContradictions(normalized1, normalized2) # <<>>

\* C28: whenever the temporal layer or the quantitative layer reports a
\* contradiction of two normalized texts the fact-based layer reports one as well,
\* and the engine answers as it would without the two layers.
C28_SameEventRefinesFacts ==
    /\ pc = "sameEvent" =>
          ((result.temporal # <<>> \/ result.quantitative # <<>>) =>
              findFactualContradictions(extractFacts(normalizeString(args[1])),
                                        extractFacts(normalizeString(args[2]))) # <<>>)
    /\ pc = "semantic" =>
          result = FactsOrProcedure(normalizeString(args[1]), normalizeString(args[2]))

\* C28 witness: the quantitative layer reports two texts
C28_Witness ==
    pc = "sameEvent" /\ result.quantitative # <<>> /\ result.temporal = <<>>

\* C29: the engine gives the same answer for two texts in either order.
C29_EngineSymmetric ==
    pc = "semantic" => result = detectSemanticContradictions(args[2], args[1])

\* C29 witness: two texts of which only one holds a key of the opposites table
\* are found contradictory
C29_Witness ==
    pc = "semantic" /\ result /\ args = <<<<"w","r","o","n","g">>, <<"t","r","u","e">>>>

(***************************************************************************)
(* Properties of the wizard                                                *)
(***************************************************************************)
\* C30: on the results step businessId is not empty and the entities and the
\* conflicts shown are those of the account of businessId; an answer that comes
\* after Back does not bring the wizard to the results step of another account.
C30_ResultsAreOfBusinessId ==
    step = "results" =>
        /\ businessId # <<>>
        /\ entities = AccountEntities(businessId)
        /\ conflicts = detectConflicts(entities)

(***************************************************************************)
(* Properties of the pagination loop                                       *)
(***************************************************************************)
\* 200 pages of 50 entities
MaxAccumulated == PageLimit * limit

\* the loop is over
LoopDone == pc \in {"fetched", "failed"}

\* the loop ends
FetchTerminates == <>LoopDone

\* not more than 200 pages are requested
AtMostPageLimitPages == (pc = "loop" /\ hasMorePages => page <= PageLimit) /\ page <= PageLimit + 1

\* C27: whatever lengths and totals the remote API answers with, not more than
\* 200 pages are requested and not more than 10,000 entities are accumulated.
C27_LoopIsBounded ==
    pc \in {"loop", "fetched", "failed"} =>
        AtMostPageLimitPages /\ allEntities <= MaxAccumulated
====
